---- MODULE Spec2Model ----
(***************************************************************************)
(* Model of github-agent (owizdom/mind-agent).                             *)
(*                                                                         *)
(*  - the relevance scorer of the context builder (findRelevantFiles),     *)
(*    specification SpecScorer;                                            *)
(*  - the issue store, the daemon's scan cycles and the open / push        *)
(*    commands, specification Spec;                                        *)
(*  - the start / stop commands and the PID file, specification SpecStart. *)
(*                                                                         *)
(* Strings whose characters matter (file names, paths, keywords, command   *)
(* arguments) are sequences of one-character strings, so that includes,    *)
(* toLowerCase, extname, split and join are computed, not assumed.         *)
(***************************************************************************)
EXTENDS Integers, Sequences, FiniteSets, TLC

\* ------------------------------------------------------------------------
\* Bounds of the model
\* ------------------------------------------------------------------------

\* maxFiles is drawn from 0..MaxFilesBound and the default
MaxFilesBound == 2

\* number of files of the small trees
MaxTreeFiles == 2

\* ------------------------------------------------------------------------
\* Strings
\* ------------------------------------------------------------------------

Upper == <<"A","B","C","D","E","F","G","H","I","J","K","L","M",
           "N","O","P","Q","R","S","T","U","V","W","X","Y","Z">>

Lower == <<"a","b","c","d","e","f","g","h","i","j","k","l","m",
           "n","o","p","q","r","s","t","u","v","w","x","y","z">>

\* one character of String.prototype.toLowerCase
LowerOf(c) ==
  IF \E i \in DOMAIN Upper : Upper[i] = c
  THEN Lower[CHOOSE i \in DOMAIN Upper : Upper[i] = c]
  ELSE c

toLowerCase(s) == [i \in DOMAIN s |-> LowerOf(s[i])]

\* String.prototype.includes: sub occurs in s as a contiguous substring
includes(s, sub) ==
  \E i \in 1..(Len(s) - Len(sub) + 1) : SubSeq(s, i, i + Len(sub) - 1) = sub

\* String.prototype.startsWith for a one-character prefix
startsWith(s, c) == Len(s) > 0 /\ s[1] = c

\* Array.prototype.slice(0, n): a negative n counts from the end
slice0(s, n) ==
  LET e0 == IF n < 0 THEN Len(s) + n ELSE n
      e  == IF e0 < 0 THEN 0 ELSE IF e0 > Len(s) THEN Len(s) ELSE e0
  IN  SubSeq(s, 1, e)

\* path.extname: from the last '.' to the end; '' when there is no '.' or
\* the only '.' is the first character
extname(name) ==
  LET dots == {i \in DOMAIN name : name[i] = "."}
  IN  IF dots = {} THEN <<>>
      ELSE LET last == CHOOSE i \in dots : \A j \in dots : j <= i
           IN  IF last = 1 THEN <<>> ELSE SubSeq(name, last, Len(name))

RECURSIVE joinWith(_, _)
\* Array.prototype.join(sep) on a sequence of strings, halving the sequence
joinWith(parts, sep) ==
  IF Len(parts) = 0 THEN <<>>
  ELSE IF Len(parts) = 1 THEN parts[1]
  ELSE LET h == Len(parts) \div 2
       IN  joinWith(SubSeq(parts, 1, h), sep) \o sep
             \o joinWith(SubSeq(parts, h + 1, Len(parts)), sep)

Range(s) == {s[i] : i \in DOMAIN s}


\* ------------------------------------------------------------------------
\* Relevance scorer: the repository tree
\* ------------------------------------------------------------------------

nSrc          == <<"s","r","c">>
nNodeModules  == <<"n","o","d","e","_","m","o","d","u","l","e","s">>
nAuthTs       == <<"a","u","t","h",".","t","s">>
nOtherTs      == <<"o","t","h","e","r",".","t","s">>
nIndexTs      == <<"i","n","d","e","x",".","t","s">>
nIndexJs      == <<"i","n","d","e","x",".","j","s">>
nLoginHandler == <<"l","o","g","i","n","H","a","n","d","l","e","r",".","t","s">>
nReadme       == <<"R","E","A","D","M","E",".","m","d">>
nLogoPng      == <<"l","o","g","o",".","p","n","g">>

nDotGit       == <<".","g","i","t">>
nDist         == <<"d","i","s","t">>
nTarget       == <<"t","a","r","g","e","t">>
nMainJs       == <<"m","a","i","n",".","j","s">>
nMainTs       == <<"m","a","i","n",".","t","s">>
nLibRs        == <<"l","i","b",".","r","s">>
nPkg          == <<"p","k","g">>

\* the directory pkg/pkg/.../pkg, k levels below the root
DeepDir(k) == [i \in 1..k |-> nPkg]

kLogin  == <<"l","o","g","i","n">>
rSrcDir == <<"s","r","c","/">>

\* Every entry a repository tree of the model can hold, in the order in
\* which readdirSync lists siblings.  path is the list of path components
\* below the repository root.
Universe ==
  << [path |-> <<nSrc>>,                    dir |-> TRUE],
     [path |-> <<nSrc, nAuthTs>>,           dir |-> FALSE],
     [path |-> <<nSrc, nOtherTs>>,          dir |-> FALSE],
     [path |-> <<nSrc, nIndexTs>>,          dir |-> FALSE],
     [path |-> <<nSrc, nLogoPng>>,          dir |-> FALSE],
     [path |-> <<nLoginHandler>>,           dir |-> FALSE],
     [path |-> <<nReadme>>,                 dir |-> FALSE],
     [path |-> <<nNodeModules>>,            dir |-> TRUE],
     [path |-> <<nNodeModules, nIndexJs>>,  dir |-> FALSE],
     [path |-> <<nDotGit>>,                 dir |-> TRUE],
     [path |-> <<nDotGit, nIndexTs>>,       dir |-> FALSE],
     [path |-> <<nSrc, nDist>>,             dir |-> TRUE],
     [path |-> <<nSrc, nDist, nMainJs>>,    dir |-> FALSE],
     [path |-> <<nTarget>>,                 dir |-> TRUE],
     [path |-> <<nTarget, nLibRs>>,         dir |-> FALSE],
     [path |-> DeepDir(1),                  dir |-> TRUE],
     [path |-> DeepDir(2),                  dir |-> TRUE],
     [path |-> DeepDir(3),                  dir |-> TRUE],
     [path |-> DeepDir(4),                  dir |-> TRUE],
     [path |-> DeepDir(5),                  dir |-> TRUE],
     [path |-> DeepDir(5) \o <<nMainTs>>,   dir |-> FALSE],
     [path |-> DeepDir(6),                  dir |-> TRUE],
     [path |-> DeepDir(6) \o <<nIndexTs>>,  dir |-> FALSE] >>

\* the depth guard of walkDir
MaxDepth == 5

UFiles == {i \in DOMAIN Universe : ~Universe[i].dir}

IsPrefix(p, q) == Len(p) <= Len(q) /\ SubSeq(q, 1, Len(p)) = p

\* the tree that holds the files fs and the directories above them
TreeOf(fs) ==
  fs \cup {d \in DOMAIN Universe :
             Universe[d].dir /\ \E f \in fs : IsPrefix(Universe[d].path, Universe[f].path)}

\* the files of the first two levels that no skipped directory holds, and
\* the one below node_modules
ShallowFiles == {i \in UFiles : i <= 9}

\* the files below skipped directories, with one beside them
SkippedFiles ==
  {i \in UFiles : Universe[i].path \in { <<nSrc, nAuthTs>>, <<nDotGit, nIndexTs>>,
                                         <<nSrc, nDist, nMainJs>>, <<nTarget, nLibRs>> }}

\* the files five and six directories below the root
DeepFiles == {i \in UFiles : Len(Universe[i].path) > MaxDepth}

\* the trees of the model: those of at most MaxTreeFiles shallow files, the
\* tree of the skipped directories, the deep tree, and the tree that holds
\* every file
Trees == {TreeOf(fs) : fs \in {x \in SUBSET ShallowFiles : Cardinality(x) <= MaxTreeFiles}}
           \cup {TreeOf(SkippedFiles), TreeOf(DeepFiles), TreeOf(UFiles)}

Dirs(t) == {Universe[d].path : d \in {i \in t : Universe[i].dir}}

\* ------------------------------------------------------------------------
\* Relevance scorer: findRelevantFiles
\* ------------------------------------------------------------------------

\* keywords.slice(0, 20)
KeywordLimit == 20

\* default of the maxFiles parameter
DefaultMaxFiles == 10

codeExtensions ==
  { <<".","t","s">>, <<".","t","s","x">>, <<".","j","s">>, <<".","j","s","x">>,
    <<".","r","s">>, <<".","p","y">>, <<".","g","o">>, <<".","m","d">> }

\* a variant that skips the dot-prefixed entries only
skipEntryDotOnly(name) == startsWith(name, ".")

\* the entries of a directory that the walk skips without looking inside
skipEntry(name) ==
  \/ startsWith(name, ".")
  \/ name = nNodeModules
  \/ name = <<"t","a","r","g","e","t">>
  \/ name = <<"d","i","s","t">>

\* path.relative(repoPath, fullPath) of an entry below the root
relativePath(comps) == joinWith(comps, <<"/">>)

\* a variant that looks for the reference in the name only
refRuleNameOnly(rel, name, refs) ==
  \E i \in DOMAIN refs : includes(name, refs[i])

\* for (const ref of fileRefs) if (relativePath.includes(ref) || name.includes(ref))
refRule(rel, name, refs) ==
  \E i \in DOMAIN refs : includes(rel, refs[i]) \/ includes(name, refs[i])

\* a variant that checks the last 20 keywords of the list, not the first 20
keywordHitsLast(name, kws) ==
  LET ks        == SubSeq(kws, 1 + Len(kws) - Len(slice0(kws, KeywordLimit)), Len(kws))
      nameLower == toLowerCase(name)
  IN  {i \in DOMAIN ks : includes(nameLower, toLowerCase(ks[i]))}

\* indices, among the keywords checked, of the keywords found in the name
keywordHits(name, kws) ==
  LET ks        == slice0(kws, KeywordLimit)
      nameLower == toLowerCase(name)
  IN  {i \in DOMAIN ks : includes(nameLower, toLowerCase(ks[i]))}

readmeRule(name) == name = nReadme

entryPointRule(name) ==
  \/ includes(name, <<"i","n","d","e","x">>)
  \/ includes(name, <<"m","a","i","n">>)
  \/ includes(name, <<"l","i","b">>)

NoKw == <<>>

\* a variant that pushes the reason of the keyword rule before the reason
\* of the reference rule
scoreFileKeywordFirst(rel, name, refs, kws) ==
  LET hits  == keywordHits(name, kws)
      first == CHOOSE i \in hits : \A j \in hits : i <= j
      byRef == refRule(rel, name, refs)
      byKw  == hits # {}
      r1 == IF byRef
            THEN <<[rule |-> "Referenced in issue", kw |-> NoKw]>> ELSE <<>>
      r2 == IF byKw
            THEN <<[rule |-> "Matches keyword", kw |-> slice0(kws, KeywordLimit)[first]]>>
            ELSE <<>>
      r3 == IF readmeRule(name)
            THEN <<[rule |-> "README file", kw |-> NoKw]>> ELSE <<>>
      r4 == IF entryPointRule(name)
            THEN <<[rule |-> "Entry point file", kw |-> NoKw]>> ELSE <<>>
  IN  [score   |-> (IF byRef THEN 10 ELSE 0)
                 + (IF byKw THEN 3 ELSE 0)
                 + (IF readmeRule(name) THEN 2 ELSE 0)
                 + (IF entryPointRule(name) THEN 1 ELSE 0),
       reasons |-> r2 \o r1 \o r3 \o r4]

\* the score and the reasons pushed for one file, in the order of the rules
scoreFile(rel, name, refs, kws) ==
  LET hits  == keywordHits(name, kws)
      first == CHOOSE i \in hits : \A j \in hits : i <= j
      byRef == refRule(rel, name, refs)
      byKw  == hits # {}
      r1 == IF byRef
            THEN <<[rule |-> "Referenced in issue", kw |-> NoKw]>> ELSE <<>>
      r2 == IF byKw
            THEN <<[rule |-> "Matches keyword", kw |-> slice0(kws, KeywordLimit)[first]]>>
            ELSE <<>>
      r3 == IF readmeRule(name)
            THEN <<[rule |-> "README file", kw |-> NoKw]>> ELSE <<>>
      r4 == IF entryPointRule(name)
            THEN <<[rule |-> "Entry point file", kw |-> NoKw]>> ELSE <<>>
  IN  [score   |-> (IF byRef THEN 10 ELSE 0)
                 + (IF byKw THEN 3 ELSE 0)
                 + (IF readmeRule(name) THEN 2 ELSE 0)
                 + (IF entryPointRule(name) THEN 1 ELSE 0),
       reasons |-> r1 \o r2 \o r3 \o r4]

\* a variant that pushes every scored file, whatever its score
pushedAlways(score) == score >= 0

\* if (score > 0) results.push(...)
pushed(score) == score > 0

\* readdirSync(dir): the entries of the directory, as indices of Universe
entries(t, dir) ==
  SelectSeq([i \in 1..Len(Universe) |-> i],
            LAMBDA i : /\ i \in t
                       /\ Len(Universe[i].path) = Len(dir) + 1
                       /\ IsPrefix(dir, Universe[i].path))

RECURSIVE walkDir(_, _, _, _, _, _)
RECURSIVE walkEntries(_, _, _, _, _, _)

\* a variant in which the failed read of a subdirectory ends the loop over
\* the entries of its parent
walkEntriesUntilError(t, unread, refs, kws, es, depth) ==
  IF es = <<>> THEN <<>>
  ELSE
    LET e    == Universe[Head(es)]
        name == e.path[Len(e.path)]
        rel  == relativePath(e.path)
        sf   == scoreFile(rel, name, refs, kws)
        here ==
          IF skipEntry(name) THEN <<>>
          ELSE IF e.dir THEN walkDir(t, unread, refs, kws, e.path, depth + 1)
          ELSE IF extname(name) \notin codeExtensions THEN <<>>
          ELSE << [path   |-> rel,
                   reason |-> IF sf.reasons # <<>> THEN Head(sf.reasons)
                              ELSE [rule |-> "Relevant file", kw |-> NoKw],
                   score  |-> sf.score,
                   pushed |-> pushed(sf.score)] >>
    IN  IF ~skipEntry(name) /\ e.dir /\ e.path \in unread THEN <<>>
        ELSE here \o walkEntries(t, unread, refs, kws, Tail(es), depth)

\* The body of the for loop of walkDir over the entries es.  The value is
\* the list of the files that were scored, each with its score, its first
\* reason and whether it was pushed to results.
walkEntries(t, unread, refs, kws, es, depth) ==
  IF es = <<>> THEN <<>>
  ELSE
    LET e    == Universe[Head(es)]
        name == e.path[Len(e.path)]
        rel  == relativePath(e.path)
        sf   == scoreFile(rel, name, refs, kws)
        here ==
          IF skipEntry(name) THEN <<>>
          ELSE IF e.dir THEN walkDir(t, unread, refs, kws, e.path, depth + 1)
          ELSE IF extname(name) \notin codeExtensions THEN <<>>
          ELSE << [path   |-> rel,
                   reason |-> IF sf.reasons # <<>> THEN Head(sf.reasons)
                              ELSE [rule |-> "Relevant file", kw |-> NoKw],
                   score  |-> sf.score,
                   pushed |-> pushed(sf.score)] >>
    IN  here \o walkEntries(t, unread, refs, kws, Tail(es), depth)

\* a variant whose depth guard lets one more level through
walkDirOneDeeper(t, unread, refs, kws, dir, depth) ==
  IF depth > MaxDepth + 1 THEN <<>>
  ELSE IF dir \in unread THEN <<>>
  ELSE walkEntries(t, unread, refs, kws, entries(t, dir), depth)

\* walkDir(dir, depth): nothing beyond depth 5, nothing from a directory
\* whose readdirSync throws (the catch swallows the error)
walkDir(t, unread, refs, kws, dir, depth) ==
  IF depth > MaxDepth THEN <<>>
  ELSE IF dir \in unread THEN <<>>
  ELSE walkEntries(t, unread, refs, kws, entries(t, dir), depth)

MaxScore == 16

RECURSIVE sortFrom(_, _)
\* results.sort((a, b) => b.score - a.score): stable, descending by score
sortFrom(rs, s) ==
  IF s < 0 THEN <<>>
  ELSE SelectSeq(rs, LAMBDA r : r.score = s) \o sortFrom(rs, s - 1)

\* a variant that leaves results in the order of discovery
sortByScoreNone(rs) == rs

sortByScore(rs) == sortFrom(rs, MaxScore)

\* the value of findRelevantFiles: sort, slice(0, maxFiles), drop the score
findRelevantFiles(t, unread, refs, kws, n) ==
  LET log     == walkDir(t, unread, refs, kws, <<>>, 0)
      res     == SelectSeq(log, LAMBDA r : r.pushed)
      top     == slice0(sortByScore(res), n)
  IN  [log     |-> log,
       results |-> res,
       ranked  |-> [i \in DOMAIN top |-> [path |-> top[i].path, reason |-> top[i].reason]]]


\* ------------------------------------------------------------------------
\* The forge and the issue store
\* ------------------------------------------------------------------------

\* number of daemon scan cycles that can be in flight together
MaxInFlight == 2

\* number of scan cycles a behaviour starts
MaxScans == 3

Digits == <<"1","2","3","4","5","6","7","8","9">>

\* Number.prototype.toString of a small positive number
toString(n) == <<Digits[n]>>

NaN == -1

RECURSIVE parseDigits(_, _)
\* the value of the leading decimal digits of s, acc being the value so far
parseDigits(s, acc) ==
  IF s = <<>> \/ ~(\E d \in DOMAIN Digits : Digits[d] = Head(s)) THEN acc
  ELSE parseDigits(Tail(s),
                   10 * acc + (CHOOSE d \in DOMAIN Digits : Digits[d] = Head(s)))

\* parseInt(s, 10): NaN unless s starts with a digit
parseInt(s) ==
  IF s = <<>> \/ ~(\E d \in DOMAIN Digits : Digits[d] = Head(s)) THEN NaN
  ELSE parseDigits(s, 0)

RECURSIVE split(_, _)
\* String.prototype.split(sep) for a one-token separator: the pieces
\* between the separators, cutting at the separator nearest the middle
split(s, sep) ==
  LET seps == {i \in DOMAIN s : s[i] = sep}
      mid  == (Len(s) + 1) \div 2
      dist(i) == IF i < mid THEN mid - i ELSE i - mid
  IN  IF seps = {} THEN <<s>>
      ELSE LET k == CHOOSE i \in seps : \A j \in seps : dist(i) <= dist(j)
           IN  split(SubSeq(s, 1, k - 1), sep)
                 \o split(SubSeq(s, k + 1, Len(s)), sep)

\* The issues of the forge, in the order in which a scan meets them
\* (repository by repository).  repo is the short name (repo.name),
\* owner/repo the full name.
Forge ==
  << [github_id |-> 101, owner |-> "o1", repo |-> "r1", number |-> 1,
      title |-> "t1", body |-> "b1", state |-> "open",
      html_url |-> "o1/r1/issues/1", created_at |-> 1, updated_at |-> 1],
     [github_id |-> 102, owner |-> "o1", repo |-> "r1", number |-> 2,
      title |-> "t1", body |-> "b1", state |-> "open",
      html_url |-> "o1/r1/issues/2", created_at |-> 1, updated_at |-> 1] >>

Statuses == {"new", "ready", "in_progress", "fixed", "pushed", "skipped"}

NULL == <<>>

\* fix/issue-${issue.issue_number}-${slug}
branchNameOf(issue) == <<"fix/issue-", Digits[issue.issue_number]>>

\* path.join(config.tasksDir, `${issue.repo_name}-${issue.issue_number}.md`)
taskFilePathOf(issue) ==
  issue.repo_name \o <<"-">> \o toString(issue.issue_number) \o <<".md">>

\* upsertIssue: UPDATE of title, body, state and updated_at of the row with
\* this github_id, or INSERT of a row with the defaults of the schema.  The
\* INSERT throws (SQLITE_CONSTRAINT) when a row of another github_id has
\* the same repo_name and issue_number: UNIQUE(repo_name, issue_number).
upsertIssue(rows, data, now) ==
  IF \E i \in DOMAIN rows : rows[i].github_id = data.github_id
  THEN LET i == CHOOSE k \in DOMAIN rows : rows[k].github_id = data.github_id
       IN  [rows  |-> [rows EXCEPT ![i].title = data.title,
                                   ![i].body = data.body,
                                   ![i].state = data.state,
                                   ![i].updated_at = data.updated_at],
            isNew |-> FALSE, id |-> i, threw |-> FALSE]
  ELSE IF \E i \in DOMAIN rows : /\ rows[i].repo_name = data.repo_name
                                  /\ rows[i].issue_number = data.issue_number
  THEN [rows |-> rows, isNew |-> FALSE, id |-> 0, threw |-> TRUE]
  ELSE [rows |-> Append(rows,
                   [id             |-> Len(rows) + 1,
                    github_id      |-> data.github_id,
                    repo_name      |-> data.repo_name,
                    issue_number   |-> data.issue_number,
                    title          |-> data.title,
                    body           |-> data.body,
                    state          |-> data.state,
                    html_url       |-> data.html_url,
                    created_at     |-> data.created_at,
                    updated_at     |-> data.updated_at,
                    first_seen_at  |-> now,
                    status         |-> "new",
                    branch_name    |-> NULL,
                    task_file_path |-> NULL]),
        isNew |-> TRUE, id |-> Len(rows) + 1, threw |-> FALSE]

\* const issueData: GitHubIssueData = {...} of scanAllRepos, for the forge
\* issue g
issueDataOf(g) ==
  [github_id    |-> Forge[g].github_id,
   repo_name    |-> <<Forge[g].repo>>,
   issue_number |-> Forge[g].number,
   title        |-> Forge[g].title,
   body         |-> Forge[g].body,
   state        |-> Forge[g].state,
   html_url     |-> Forge[g].html_url,
   created_at   |-> Forge[g].created_at,
   updated_at   |-> Forge[g].updated_at]

RECURSIVE scanFrom(_, _, _, _)
\* the upsert loop of scanAllRepos over the fetched issues Forge[g..]; an
\* error of upsertIssue ends it
scanFrom(rows, pub, now, g) ==
  IF g > Len(Forge) THEN [rows |-> rows, threw |-> FALSE]
  ELSE IF g \notin pub THEN scanFrom(rows, pub, now, g + 1)
  ELSE LET u == upsertIssue(rows, issueDataOf(g), now)
       IN  IF u.threw THEN [rows |-> rows, threw |-> TRUE]
           ELSE scanFrom(u.rows, pub, now, g + 1)

scanAllRepos(rows, pub, now) == scanFrom(rows, pub, now, 1)

RECURSIVE orderDesc(_, _)
\* ORDER BY first_seen_at DESC from time t down; rows of one scan stay in
\* rowid order
orderDesc(rows, t) ==
  IF t < 1 THEN <<>>
  ELSE SelectSeq(rows, LAMBDA r : r.first_seen_at = t) \o orderDesc(rows, t - 1)

\* SELECT * FROM issues WHERE status = ? ORDER BY first_seen_at DESC
getIssuesByStatus(rows, st) ==
  orderDesc(SelectSeq(rows, LAMBDA r : r.status = st), Len(rows))

\* SELECT * FROM issues WHERE status IN ('new', 'ready') ORDER BY first_seen_at DESC
getAllPendingIssues(rows) ==
  orderDesc(SelectSeq(rows, LAMBDA r : r.status \in {"new", "ready"}), Len(rows))

\* the id of the first row of a query result, 0 for undefined
firstId(rs) == IF rs = <<>> THEN 0 ELSE Head(rs).id

\* SELECT * FROM issues WHERE repo_name = ? AND issue_number = ?
getIssueByNumber(rows, repoName, issueNumber) ==
  firstId(SelectSeq(rows, LAMBDA r : r.repo_name = repoName /\ r.issue_number = issueNumber))

\* UPDATE issues SET status = ? WHERE id = ?
updateIssueStatus(rows, id, st) == [rows EXCEPT ![id].status = st]

\* UPDATE issues SET branch_name = ? WHERE id = ?
updateIssueBranch(rows, id, b) == [rows EXCEPT ![id].branch_name = b]

\* UPDATE issues SET task_file_path = ? WHERE id = ?
updateIssueTaskFile(rows, id, p) == [rows EXCEPT ![id].task_file_path = p]

\* ------------------------------------------------------------------------
\* The open and push commands: finding the issue of an argument
\* ------------------------------------------------------------------------

\* the documented forms of an issue reference, for the forge issue g
argNumber(g)    == toString(Forge[g].number)
argRepo(g)      == <<Forge[g].repo, "#">> \o toString(Forge[g].number)
argOwnerRepo(g) == <<Forge[g].owner, "/", Forge[g].repo, "#">> \o toString(Forge[g].number)

\* the forge issues the commands of the model are given references to
CmdIssues == {1}

IssueArgs == UNION {{argNumber(g), argRepo(g), argOwnerRepo(g)} : g \in CmdIssues}

\* open: issueArg.includes('#') ? getIssueByNumber(repo, parseInt(num))
\*                              : getAllPendingIssues().find(by number)
openLookup(rows, arg) ==
  IF \E i \in DOMAIN arg : arg[i] = "#"
  THEN LET parts == split(arg, "#")
       IN  getIssueByNumber(rows, parts[1], parseInt(parts[2]))
  ELSE firstId(SelectSeq(getAllPendingIssues(rows),
                         LAMBDA r : r.issue_number = parseInt(arg)))

\* push: as open, and for a bare number a second search, again among the
\* pending issues, for one that is in_progress or fixed
pushLookup(rows, arg) ==
  IF \E i \in DOMAIN arg : arg[i] = "#"
  THEN LET parts == split(arg, "#")
       IN  getIssueByNumber(rows, parts[1], parseInt(parts[2]))
  ELSE LET first == firstId(SelectSeq(getAllPendingIssues(rows),
                                      LAMBDA r : r.issue_number = parseInt(arg)))
       IN  IF first # 0 THEN first
           ELSE firstId(SelectSeq(getAllPendingIssues(rows),
                                  LAMBDA r : /\ r.issue_number = parseInt(arg)
                                             /\ r.status \in {"in_progress", "fixed"}))


\* ------------------------------------------------------------------------
\* Configuration and the notifier
\* ------------------------------------------------------------------------

NotificationTypes == {"new_issue", "issue_ready", "scan_complete", "error"}

\* a flag of the notifications section of github-agent.yaml
FileFlags == {"true", "false", "absent"}

\* fileConfig.notifications?.x ?? defaults.notifications.x, the default
\* of every flag being true
orDefault(flag) == flag # "false"

\* let configInstance: Config | null = null
NoConfig == [none |-> TRUE]

\* loadConfig: throws when the file cannot be loaded or validated (no
\* token, no targets), else the merged configuration
loadConfig(file) ==
  IF ~file.loads THEN [threw |-> TRUE, config |-> NoConfig]
  ELSE [threw  |-> FALSE,
        config |-> [enabled        |-> orDefault(file.enabled),
                    onNewIssue     |-> orDefault(file.on_new_issue),
                    onScanComplete |-> orDefault(file.on_scan_complete),
                    onError        |-> orDefault(file.on_error)]]

\* getConfig: the singleton, loaded on first use
getConfig(instance, file) ==
  IF instance # NoConfig THEN [threw |-> FALSE, config |-> instance]
  ELSE loadConfig(file)

\* a variant that does not look at notifications.enabled
shouldNotifyByTypeOnly(instance, file, type) ==
  LET g == getConfig(instance, file)
  IN  IF g.threw THEN TRUE
      ELSE CASE type \in {"new_issue", "issue_ready"} -> g.config.onNewIssue
             [] type = "scan_complete"                -> g.config.onScanComplete
             [] type = "error"                        -> g.config.onError
             [] OTHER                                 -> TRUE

\* shouldNotify(type): true when getConfig throws (the catch)
shouldNotify(instance, file, type) ==
  LET g == getConfig(instance, file)
  IN  IF g.threw THEN TRUE
      ELSE IF ~g.config.enabled THEN FALSE
      ELSE CASE type \in {"new_issue", "issue_ready"} -> g.config.onNewIssue
             [] type = "scan_complete"                -> g.config.onScanComplete
             [] type = "error"                        -> g.config.onError
             [] OTHER                                 -> TRUE

\* ------------------------------------------------------------------------
\* The task brief: readFileContent and the files section of generateTaskFile
\* ------------------------------------------------------------------------

\* length of the list of relevant files handed to the brief
MaxBriefFiles == 2

\* default of the maxLines parameter of readFileContent
MaxLines == 500

\* the files a brief of the model can name, with the reason of each
BriefFiles ==
  << [path |-> relativePath(<<nSrc, nAuthTs>>),  reason |-> "Referenced in issue"],
     [path |-> relativePath(<<nLoginHandler>>),  reason |-> "Matches keyword"],
     [path |-> relativePath(<<nReadme>>),        reason |-> "README file"] >>

\* the text of a file of n one-letter lines, each followed by a newline
\* except that the last is when nl holds only
TextOf(n, nl) ==
  [i \in 1..(IF nl THEN 2 * n ELSE 2 * n - 1) |->
     IF i % 2 = 1 THEN "x" ELSE "\n"]

\* what a file can be on disk when the brief is rendered: deleted, or a
\* text of 2, 500 or 501 lines, its last line ended by a newline (Nl) or not
DiskStates == {"missing", "short", "full", "fullNl", "long", "longNl"}

\* fs.readFileSync(filePath, 'utf-8') of a file that is there, by what
\* the file is on disk
contentOnDisk ==
  [missing |-> <<>>,
   short   |-> TextOf(2, TRUE),
   full    |-> TextOf(MaxLines, FALSE),
   fullNl  |-> TextOf(MaxLines, TRUE),
   long    |-> TextOf(MaxLines + 1, FALSE),
   longNl  |-> TextOf(MaxLines + 1, TRUE)]

\* content.split('\n')
linesOnDisk ==
  [missing |-> <<>>,
   short   |-> split(contentOnDisk.short, "\n"),
   full    |-> split(contentOnDisk.full, "\n"),
   fullNl  |-> split(contentOnDisk.fullNl, "\n"),
   long    |-> split(contentOnDisk.long, "\n"),
   longNl  |-> split(contentOnDisk.longNl, "\n")]

\* a variant without the try/catch: the error of readFileSync propagates
readFileContentNoCatch(disk, f) ==
  IF disk[f] = "missing"
  THEN [threw |-> TRUE, lines |-> <<>>, text |-> <<>>, marker |-> "none", more |-> 0]
  ELSE LET lines == linesOnDisk[disk[f]]
       IN  IF Len(lines) > MaxLines
           THEN [threw |-> FALSE, lines |-> slice0(lines, MaxLines),
                 text |-> joinWith(slice0(lines, MaxLines), <<"\n">>),
                 marker |-> "truncated", more |-> Len(lines) - MaxLines]
           ELSE [threw |-> FALSE, lines |-> lines, text |-> contentOnDisk[disk[f]],
                 marker |-> "none", more |-> 0]

\* readFileContent(filePath): the content when content.split('\n') has at
\* most maxLines pieces, else the first maxLines pieces joined by newlines
\* (text) with a note of how many more pieces there are (marker, more); a
\* failed read gives `[Error reading file: ...]` (marker "error")
readFileContent(disk, f) ==
  IF disk[f] = "missing"
  THEN [threw |-> FALSE, lines |-> <<>>, text |-> <<>>, marker |-> "error", more |-> 0]
  ELSE LET lines == linesOnDisk[disk[f]]
       IN  IF Len(lines) > MaxLines
           THEN [threw |-> FALSE, lines |-> slice0(lines, MaxLines),
                 text |-> joinWith(slice0(lines, MaxLines), <<"\n">>),
                 marker |-> "truncated", more |-> Len(lines) - MaxLines]
           ELSE [threw |-> FALSE, lines |-> lines, text |-> contentOnDisk[disk[f]],
                 marker |-> "none", more |-> 0]

\* relevantFilePaths.map(({path, reason}) => ({path, content, reason}))
readRelevantFiles(disk, paths) ==
  [i \in DOMAIN paths |->
     [path    |-> BriefFiles[paths[i]].path,
      reason  |-> BriefFiles[paths[i]].reason,
      content |-> readFileContent(disk, paths[i])]]

\* the Relevant Files section of generateTaskFile: a note when there is no
\* file, else one block per file
generateTaskFile(relevantFiles) ==
  [noFiles |-> relevantFiles = <<>>,
   blocks  |-> [i \in DOMAIN relevantFiles |->
                  [heading |-> relevantFiles[i].path,
                   reason  |-> relevantFiles[i].reason,
                   fenced  |-> relevantFiles[i].content]]]

\* ------------------------------------------------------------------------
\* The monitored targets: fetchAllTargetRepos, scanAllRepos, getIssueDetails
\* ------------------------------------------------------------------------

\* number of scanAllRepos calls of a behaviour
MaxTargetScans == 2

\* The repositories of the forge and what issues.listForRepo returns for
\* each, newest first: issues and pull requests.  name is the short name
\* (repo.name).
Hub ==
  << [owner |-> "o1", name |-> "r1", has_issues |-> TRUE,
      items |-> << [id |-> 202, number |-> 2, pull_request |-> TRUE],
                   [id |-> 201, number |-> 1, pull_request |-> FALSE] >>],
     [owner |-> "o2", name |-> "r1", has_issues |-> TRUE,
      items |-> << [id |-> 206, number |-> 2, pull_request |-> FALSE],
                   [id |-> 203, number |-> 1, pull_request |-> FALSE] >>],
     [owner |-> "o2", name |-> "r2", has_issues |-> TRUE,
      items |-> << [id |-> 204, number |-> 1, pull_request |-> FALSE] >>],
     [owner |-> "u1", name |-> "r3", has_issues |-> TRUE,
      items |-> << [id |-> 205, number |-> 7, pull_request |-> FALSE] >>],
     [owner |-> "u1", name |-> "r4", has_issues |-> FALSE,
      items |-> << >>] >>

\* config.targets.organizations and config.targets.repositories
OrgLists == { <<>>, <<"o1">>, <<"o2">>, <<"o1", "o2">>, <<"o2", "o1">> }

RepoEntryLists ==
  { <<>>,
    <<[owner |-> "u1", repo |-> "r3"]>>,
    <<[owner |-> "o2", repo |-> "r1"]>>,
    <<[owner |-> "o2", repo |-> "r2"], [owner |-> "u1", repo |-> "r4"]>> }

\* loadConfig refuses a configuration without any target
TargetsValues ==
  {t \in [organizations : OrgLists, repositories : RepoEntryLists] :
     t.organizations # <<>> \/ t.repositories # <<>>}

\* fetchOrgRepos(orgName): the repositories of the organization, as
\* indices of Hub
fetchOrgRepos(orgName) ==
  SelectSeq([h \in 1..Len(Hub) |-> h], LAMBDA h : Hub[h].owner = orgName)

\* fetchRepo(owner, repo): the repository, 0 for null (not found, or the
\* request failed)
fetchRepo(owner, repo, down) ==
  IF owner \in down \/ ~(\E h \in DOMAIN Hub : Hub[h].owner = owner /\ Hub[h].name = repo)
  THEN 0
  ELSE CHOOSE h \in DOMAIN Hub : Hub[h].owner = owner /\ Hub[h].name = repo

RECURSIVE fetchOrgs(_, _)
\* the first loop of fetchAllTargetRepos: an organization whose request
\* fails is skipped
fetchOrgs(orgs, down) ==
  IF orgs = <<>> THEN <<>>
  ELSE (IF Head(orgs) \in down THEN <<>> ELSE fetchOrgRepos(Head(orgs)))
         \o fetchOrgs(Tail(orgs), down)

RECURSIVE fetchConfigured(_, _, _)
\* the second loop of fetchAllTargetRepos: a repository is added unless
\* one of the same full_name is there
fetchConfigured(allRepos, configured, down) ==
  IF configured = <<>> THEN allRepos
  ELSE LET r == fetchRepo(Head(configured).owner, Head(configured).repo, down)
       IN  fetchConfigured(IF r # 0 /\ ~(\E i \in DOMAIN allRepos : allRepos[i] = r)
                           THEN Append(allRepos, r) ELSE allRepos,
                           Tail(configured), down)

fetchAllTargetRepos(targets, down) ==
  fetchConfigured(fetchOrgs(targets.organizations, down), targets.repositories, down)

\* fetchRepoIssues(owner, repoName): the issues without the pull requests,
\* [] when the request fails
fetchRepoIssues(h, down) ==
  IF Hub[h].owner \in down THEN <<>>
  ELSE SelectSeq(Hub[h].items, LAMBDA it : ~it.pull_request)

\* const issueData: GitHubIssueData = {...} for an issue of the repository h
issueDataOfRepo(h, it) ==
  [github_id    |-> it.id,
   repo_name    |-> <<Hub[h].name>>,
   issue_number |-> it.number,
   title        |-> "t",
   body         |-> "b",
   state        |-> "open",
   html_url     |-> <<Hub[h].owner, "/", Hub[h].name, "/issues/", it.number>>,
   created_at   |-> 1,
   updated_at   |-> 1]

RECURSIVE upsertFetched(_, _, _, _)
\* for (const issue of issues) of scanAllRepos; an error of upsertIssue
\* leaves the loop and the function
upsertFetched(acc, h, its, now) ==
  IF its = <<>> \/ acc.threw THEN acc
  ELSE LET u == upsertIssue(acc.rows, issueDataOfRepo(h, Head(its)), now)
       IN  IF u.threw THEN [acc EXCEPT !.threw = TRUE]
           ELSE upsertFetched([acc EXCEPT !.rows = u.rows,
                                          !.newIssues = @ + (IF u.isNew THEN 1 ELSE 0)],
                              h, Tail(its), now)

RECURSIVE scanRepos(_, _, _, _)
\* for (const repo of reposWithIssues) of scanAllRepos
scanRepos(acc, repos, down, now) ==
  IF repos = <<>> \/ acc.threw THEN acc
  ELSE LET its == fetchRepoIssues(Head(repos), down)
       IN  scanRepos(upsertFetched([acc EXCEPT !.issuesFound = @ + Len(its)],
                                   Head(repos), its, now),
                     Tail(repos), down, now)

\* scanAllRepos() over the configured targets: the rows it leaves, whether
\* it threw, and the counts it hands to recordScan and returns
scanAllTargets(rows, targets, down, now) ==
  LET repos           == fetchAllTargetRepos(targets, down)
      reposWithIssues == SelectSeq(repos, LAMBDA h : Hub[h].has_issues)
      acc == scanRepos([rows |-> rows, threw |-> FALSE, issuesFound |-> 0, newIssues |-> 0],
                       reposWithIssues, down, now)
  IN  [rows         |-> acc.rows,
       threw        |-> acc.threw,
       reposScanned |-> Len(reposWithIssues),
       issuesFound  |-> acc.issuesFound,
       newIssues    |-> acc.newIssues]

\* getIssueDetails(repoFullName, issueNumber): the owner and the repository
\* of the two requests, and whether they found an issue (else null)
getIssueDetails(organizations, down, repoFullName, issueNumber) ==
  LET parts == IF \E i \in DOMAIN repoFullName : repoFullName[i] = "/"
               THEN split(repoFullName, "/")
               ELSE << IF organizations = <<>> THEN <<"undefined">>
                       ELSE <<organizations[1]>>,
                       repoFullName >>
      owner == parts[1]
      repo  == parts[2]
  IN  [owner |-> owner,
       repo  |-> repo,
       found |-> \E h \in DOMAIN Hub :
                   /\ <<Hub[h].owner>> = owner /\ <<Hub[h].name>> = repo
                   /\ Hub[h].owner \notin down
                   /\ \E k \in DOMAIN Hub[h].items : Hub[h].items[k].number = issueNumber]

\* ------------------------------------------------------------------------
\* State
\* ------------------------------------------------------------------------

VARIABLES
  \* relevance scorer: the inputs of findRelevantFiles ...
  tree,          \* the entries of the repository (indices of Universe)
  unreadable,    \* the directories whose readdirSync throws
  fileRefs,      \* list of file references
  keywords,      \* list of keywords
  maxFiles,      \* the maximum N
  \* ... and what a call leaves
  scoreLog,      \* every file the walk scored, with its score
  results,       \* the results array after the walk
  ranked,        \* the returned list
  prevKeywords,  \* keywords of the call before this one
  prevScoreLog,  \* scoreLog of the call before this one
  scPc,          \* "input", "returned" (one call), "again" (a second call)
  \* issue store, workspace and daemon
  issues,        \* table issues: sequence of rows, id = index
  published,     \* the forge issues a scan fetches (indices of Forge)
  cloned,        \* repositories with a local clone
  currentBranch, \* per repository, the branch its clone is checked out on
  isRunning,     \* daemon: isRunning
  scanInterval,  \* daemon: the interval timer is set
  cycles,        \* daemon: the runScanCycle calls in flight
  scans,         \* number of runScanCycle calls so far
  builds,        \* number of buildContext calls per issue id
  lastLog,       \* per issue id, the last line processNewIssues logged for it
  lastCmd,       \* the last open / push command and its outcome
  notifiedReady, \* the issue ids notifyIssueReady was called for
  \* start / stop commands
  pidFile,       \* content of daemon.pid, 0 when there is no file
  daemons,       \* the daemon processes that run, by pid
  nextPid,       \* the pid the next process gets
  startOut,      \* what the last start command reported
  \* configuration and notifier
  cfgFile,        \* github-agent.yaml: whether it loads, and its notification flags
  configInstance, \* the singleton of getConfig, NoConfig before the first load
  proc,           \* the process: "off", "running" (configuration loaded), "exited"
  sent,           \* the types of the notifications node-notifier has shown
  lastNotify,     \* the last call of notify and its outcome
  \* the task brief
  relevantPaths,  \* what findRelevantFiles returned (indices of BriefFiles)
  diskFiles,      \* per file, what readFileSync finds at render time
  taskFile,       \* the task file on disk, NoBrief before it is written
  briefStatus,    \* the issue's status
  briefOut,       \* how buildContext ended: "none" (not yet), "returned", or
                  \* the error it threw, "read_error" or "write_error"
  \* the issues table under upsertIssue
  table,          \* table issues: sequence of rows, id = index
  lastUpsert,     \* the last call of upsertIssue: its argument and what it gave
  \* the scan of the configured targets
  targets,        \* config.targets: organizations and repositories
  down,           \* the owners whose requests to the forge fail
  scanRows,       \* table issues: sequence of rows, id = index
  scanHistory,    \* table scan_history: the rows recordScan inserted
  lastScan,       \* the last call of scanAllRepos and how it ended
  details         \* the last call of getIssueDetails by buildContext

scorerVars == <<tree, unreadable, fileRefs, keywords, maxFiles, scoreLog,
                results, ranked, prevKeywords, prevScoreLog, scPc>>

storeVars == <<issues, published, cloned, currentBranch, isRunning, scanInterval,
               cycles, scans, builds, lastLog, lastCmd, notifiedReady>>

startVars == <<pidFile, daemons, nextPid, startOut>>

notifyVars == <<cfgFile, configInstance, proc, sent, lastNotify>>

\* the variables of the specifications of single components
briefVars == <<relevantPaths, diskFiles, taskFile, briefStatus, briefOut>>

upsertVars == <<table, lastUpsert>>

targetVars == <<targets, down, scanRows, scanHistory, lastScan, details>>

auxVars == <<notifyVars, briefVars, upsertVars, targetVars>>

vars == <<scorerVars, storeVars, startVars, auxVars>>

\* ------------------------------------------------------------------------
\* Specification SpecScorer: calls of findRelevantFiles
\* ------------------------------------------------------------------------

\* twenty keywords that occur in no file name: zza, zzb, ...
Filler(n) == [i \in 1..n |-> <<"z", "z", Lower[i]>>]

RefLists == { <<>>, <<nAuthTs>>, <<rSrcDir>> }

KeywordLists ==
  { <<>>, <<kLogin>>,
    << <<"L","O","G","I","N">>, <<"o","t","h","e","r">> >>,
    << <<"a","u","t","h">>, kLogin, <<"L","O","G","I","N">> >>,
    Filler(KeywordLimit) \o <<kLogin>>,
    <<kLogin>> \o Filler(KeywordLimit) }

MaxFilesValues == (0..MaxFilesBound) \cup {DefaultMaxFiles}

ScorerIdle ==
  /\ tree = {} /\ unreadable = {} /\ fileRefs = <<>> /\ keywords = <<>>
  /\ maxFiles = DefaultMaxFiles /\ scoreLog = <<>> /\ results = <<>>
  /\ ranked = <<>> /\ prevKeywords = <<>> /\ prevScoreLog = <<>>
  /\ scPc = "input"

ScorerInit ==
  /\ tree \in Trees
  /\ unreadable \in {{}, {<<nSrc>>}}
  /\ unreadable \subseteq Dirs(tree)
  /\ fileRefs \in RefLists
  /\ keywords \in KeywordLists
  /\ maxFiles \in MaxFilesValues
  /\ scoreLog = <<>> /\ results = <<>> /\ ranked = <<>>
  /\ prevKeywords = <<>> /\ prevScoreLog = <<>>
  /\ scPc = "input"

\* findRelevantFiles(repoPath, fileRefs, keywords, maxFiles)
FindRelevantFiles ==
  /\ scPc = "input"
  /\ LET r == findRelevantFiles(tree, unreadable, fileRefs, keywords, maxFiles)
     IN  /\ scoreLog' = r.log
         /\ results' = r.results
         /\ ranked' = r.ranked
  /\ scPc' = "returned"
  /\ UNCHANGED <<tree, unreadable, fileRefs, keywords, maxFiles,
                 prevKeywords, prevScoreLog>>

\* a later call on the same tree with the same references and the
\* keywords kws (the next issue of the same repository)
FindRelevantFilesAgain(kws) ==
  /\ scPc = "returned"
  /\ prevKeywords' = keywords
  /\ prevScoreLog' = scoreLog
  /\ keywords' = kws
  /\ LET r == findRelevantFiles(tree, unreadable, fileRefs, kws, maxFiles)
     IN  /\ scoreLog' = r.log
         /\ results' = r.results
         /\ ranked' = r.ranked
  /\ scPc' = "again"
  /\ UNCHANGED <<tree, unreadable, fileRefs, maxFiles>>


ScorerNext ==
  \/ FindRelevantFiles /\ UNCHANGED <<storeVars, startVars, auxVars>>
  \/ \E kws \in KeywordLists :
       FindRelevantFilesAgain(kws) /\ UNCHANGED <<storeVars, startVars, auxVars>>

\* ------------------------------------------------------------------------
\* Initial state of the store, the daemon and the PID file
\* ------------------------------------------------------------------------

\* pids of the model
MaxPid == 4

IdleCycle == [pc |-> "idle", snapshot |-> <<>>, idx |-> 0]

\* the short names of the repositories of the forge
Repos == {Forge[g].repo : g \in DOMAIN Forge}

\* the branch a fresh clone is on, and the one pullRepo checks out
DefaultBranch == <<"main">>

NoCmd == [cmd |-> "none", arg |-> <<>>, out |-> "none", id |-> 0, branch |-> NULL]

StoreInit ==
  /\ issues = <<>>
  /\ published = {}
  /\ cloned = {}
  /\ currentBranch = [r \in Repos |-> NULL]
  /\ isRunning = FALSE
  /\ scanInterval = FALSE
  /\ cycles = [c \in 1..MaxInFlight |-> IdleCycle]
  /\ scans = 0
  /\ builds = <<>>
  /\ lastLog = <<>>
  /\ lastCmd = NoCmd
  /\ notifiedReady = {}

StartInit ==
  /\ pidFile = 0
  /\ daemons = [p \in 1..MaxPid |-> "none"]
  /\ nextPid = 1
  /\ startOut = "none"

NoNotify == [type |-> "none", out |-> "none"]

\* a configuration file with no notifications section, not loaded yet
NotifyIdle ==
  /\ cfgFile = [loads |-> TRUE, enabled |-> "absent", on_new_issue |-> "absent",
                on_scan_complete |-> "absent", on_error |-> "absent"]
  /\ configInstance = NoConfig
  /\ proc = "off"
  /\ sent = {}
  /\ lastNotify = NoNotify

\* no task file: not a value generateTaskFile gives
NoBrief == [noFiles |-> FALSE, blocks |-> <<>>]

\* no file to read and no task file written
BriefIdle ==
  /\ relevantPaths = <<>>
  /\ diskFiles = [f \in DOMAIN BriefFiles |-> "short"]
  /\ taskFile = NoBrief
  /\ briefStatus = "new"
  /\ briefOut = "none"

\* before the first call: no github_id is 0
NoUpsert == [data |-> [github_id |-> 0], isNew |-> FALSE, id |-> 0, threw |-> FALSE]

\* an empty issues table
UpsertInit ==
  /\ table = <<>>
  /\ lastUpsert = NoUpsert

\* the components that a specification of one component leaves alone
NoScan == [calls |-> 0, threw |-> FALSE, reposScanned |-> 0, issuesFound |-> 0,
           newIssues |-> 0]

NoDetails == [id |-> 0, owner |-> <<>>, repo |-> <<>>, found |-> FALSE]

\* no target configured, nothing scanned
TargetsIdle ==
  /\ targets = [organizations |-> <<>>, repositories |-> <<>>]
  /\ down = {}
  /\ scanRows = <<>>
  /\ scanHistory = <<>>
  /\ lastScan = NoScan
  /\ details = NoDetails

AuxIdle == NotifyIdle /\ BriefIdle /\ UpsertInit /\ TargetsIdle

\* the state before a call of findRelevantFiles, nothing else having run
InitScorer == ScorerInit /\ StoreInit /\ StartInit /\ AuxIdle

SpecScorer == InitScorer /\ [][ScorerNext]_vars

\* ------------------------------------------------------------------------
\* Specification Spec: the daemon, the store and the open / push commands
\* ------------------------------------------------------------------------

repoOf(id) == issues[id].repo_name[1]

\* the issue a cycle is processing: the element of its snapshot the for
\* loop of processNewIssues is at
curIssue(c) == cycles[c].snapshot[cycles[c].idx]

Processing(c) == cycles[c].pc \in {"clone", "branch", "build"}

\* datetime('now') of a scan, as a logical time: later than every
\* first_seen_at stored so far
now == 1 + Len(issues)

\* the next iteration of the for loop of processNewIssues, or its end and
\* with it the end of runScanCycle
advance(cy) ==
  IF cy.idx < Len(cy.snapshot)
  THEN [cy EXCEPT !.pc = "clone", !.idx = cy.idx + 1]
  ELSE IdleCycle

\* a variant with the try/catch around the for loop: the error ends the
\* loop, and with it the cycle
catchErrorOutsideLoop(c) ==
  /\ issues' = updateIssueStatus(issues, curIssue(c), "skipped")
  /\ lastLog' = [lastLog EXCEPT ![curIssue(c)] = "failed"]
  /\ cycles' = [cycles EXCEPT ![c] = IdleCycle]
  /\ scanInterval' = TRUE

\* catch (error): logger.error, updateIssueStatus(issue.id, 'skipped'), and
\* the loop goes on
catchError(c) ==
  /\ issues' = updateIssueStatus(issues, curIssue(c), "skipped")
  /\ lastLog' = [lastLog EXCEPT ![curIssue(c)] = "failed"]
  /\ cycles' = [cycles EXCEPT ![c] = advance(cycles[c])]
  /\ scanInterval' = (scanInterval \/ advance(cycles[c]).pc = "idle")

\* startDaemon: isRunning = true and the initial runScanCycle begins; the
\* interval timer is set when that cycle has ended
StartDaemon ==
  /\ ~isRunning
  /\ isRunning' = TRUE
  /\ cycles' = [cycles EXCEPT ![1].pc = "scan"]
  /\ scans' = scans + 1
  /\ UNCHANGED <<issues, published, cloned, currentBranch, scanInterval, builds, lastLog,
                 lastCmd, notifiedReady>>

\* the setInterval callback: if (isRunning) await runScanCycle(), whatever
\* the earlier cycles are doing
Tick ==
  /\ isRunning /\ scanInterval
  /\ scans < MaxScans
  /\ scans' = scans + 1
  /\ \E c \in DOMAIN cycles :
       /\ cycles[c].pc = "idle"
       /\ \A d \in DOMAIN cycles : cycles[d].pc = "idle" => c <= d
       /\ cycles' = [cycles EXCEPT ![c].pc = "scan"]
  /\ UNCHANGED <<issues, published, cloned, currentBranch, isRunning, scanInterval,
                 builds, lastLog, lastCmd, notifiedReady>>

\* an issue is opened on the forge; the forge numbers the issues of a
\* repository in the order of their creation
Publish(g) ==
  /\ g \notin published
  /\ \A h \in 1..(g - 1) : h \in published
  /\ published' = published \cup {g}
  /\ UNCHANGED <<issues, cloned, currentBranch, isRunning, scanInterval, cycles, scans,
                 builds, lastLog, lastCmd, notifiedReady>>

\* runScanCycle up to the first await of processNewIssues: scanAllRepos
\* (the upserts), then the snapshot getIssuesByStatus('new') and the first
\* iteration of the loop; an error of the scan goes to the catch of
\* runScanCycle, which ends the cycle
Scan(c) ==
  /\ cycles[c].pc = "scan"
  /\ LET scanned == scanAllRepos(issues, published, now)
         rows == scanned.rows
         snap == IF scanned.threw THEN <<>> ELSE getIssuesByStatus(rows, "new")
         ids  == [i \in DOMAIN snap |-> snap[i].id]
     IN  /\ issues' = rows
         /\ builds' = [i \in DOMAIN rows |-> IF i \in DOMAIN builds THEN builds[i] ELSE 0]
         /\ lastLog' = [i \in DOMAIN rows |-> IF i \in DOMAIN lastLog THEN lastLog[i] ELSE "none"]
         /\ cycles' = [cycles EXCEPT ![c] =
                         IF ids = <<>> THEN IdleCycle
                         ELSE [pc |-> "clone", snapshot |-> ids, idx |-> 1]]
         /\ scanInterval' = (scanInterval \/ ids = <<>>)
  /\ UNCHANGED <<published, cloned, currentBranch, isRunning, scans, lastCmd, notifiedReady>>

\* ensureRepoCloned(issue.repo_name): pullRepo of a clone, which checks
\* the default branch out (its errors are swallowed and leave the clone as
\* it is), else cloneRepo, which throws when git clone fails
EnsureRepoCloned(c, ok) ==
  /\ cycles[c].pc = "clone"
  /\ LET repo == repoOf(curIssue(c))
     IN  IF repo \in cloned
         THEN /\ currentBranch' = IF ok THEN [currentBranch EXCEPT ![repo] = DefaultBranch]
                                  ELSE currentBranch
              /\ cycles' = [cycles EXCEPT ![c].pc = "branch"]
              /\ UNCHANGED <<issues, cloned, lastLog, scanInterval>>
         ELSE IF ok
         THEN /\ cloned' = cloned \cup {repo}
              /\ currentBranch' = [currentBranch EXCEPT ![repo] = DefaultBranch]
              /\ cycles' = [cycles EXCEPT ![c].pc = "branch"]
              /\ UNCHANGED <<issues, lastLog, scanInterval>>
         ELSE /\ catchError(c)
              /\ UNCHANGED <<cloned, currentBranch>>
  /\ UNCHANGED <<published, isRunning, scans, builds, lastCmd, notifiedReady>>

\* createIssueBranch(issue): throws when the repository is not cloned or
\* git fails, else checks the branch out and records it
CreateIssueBranch(c, ok) ==
  /\ cycles[c].pc = "branch"
  /\ LET id   == curIssue(c)
         repo == repoOf(id)
     IN  IF ok /\ repo \in cloned
         THEN /\ currentBranch' = [currentBranch EXCEPT ![repo] = branchNameOf(issues[id])]
              /\ issues' = updateIssueBranch(issues, id, branchNameOf(issues[id]))
              /\ cycles' = [cycles EXCEPT ![c].pc = "build"]
              /\ UNCHANGED <<lastLog, scanInterval>>
         ELSE catchError(c) /\ UNCHANGED currentBranch
  /\ UNCHANGED <<published, cloned, isRunning, scans, builds, lastCmd, notifiedReady>>

\* buildContext(issue, repoPath, branchName): throws when the brief cannot
\* be written, else records the brief and sets the status to ready; then
\* notifyIssueReady and the log line
BuildContext(c, ok) ==
  /\ cycles[c].pc = "build"
  /\ LET id == curIssue(c)
     IN  /\ builds' = [builds EXCEPT ![id] = builds[id] + 1]
         /\ IF ok
            THEN /\ issues' = updateIssueStatus(
                                updateIssueTaskFile(issues, id, taskFilePathOf(issues[id])),
                                id, "ready")
                 /\ notifiedReady' = notifiedReady \cup {id}
                 /\ lastLog' = [lastLog EXCEPT ![id] = "ready"]
                 /\ cycles' = [cycles EXCEPT ![c] = advance(cycles[c])]
                 /\ scanInterval' = (scanInterval \/ advance(cycles[c]).pc = "idle")
            ELSE catchError(c) /\ UNCHANGED notifiedReady
  /\ UNCHANGED <<published, cloned, currentBranch, isRunning, scans, lastCmd>>

\* a variant of open without the check of the status
OpenAnyStatus(arg) ==
  /\ LET id == openLookup(issues, arg)
     IN  IF id = 0
         THEN /\ lastCmd' = [cmd |-> "open", arg |-> arg, out |-> "not_found", id |-> 0,
                              branch |-> NULL]
              /\ UNCHANGED issues
         ELSE IF repoOf(id) \notin cloned
         THEN /\ lastCmd' = [cmd |-> "open", arg |-> arg, out |-> "not_cloned", id |-> id,
                              branch |-> NULL]
              /\ UNCHANGED issues
         ELSE /\ lastCmd' = [cmd |-> "open", arg |-> arg, out |-> "opened", id |-> id,
                              branch |-> NULL]
              /\ issues' = updateIssueStatus(issues, id, "in_progress")
  /\ UNCHANGED <<published, cloned, currentBranch, isRunning, scanInterval, cycles, scans,
                 builds, lastLog, notifiedReady>>

\* github-agent open <issue>
Open(arg) ==
  /\ LET id == openLookup(issues, arg)
     IN  IF id = 0
         THEN /\ lastCmd' = [cmd |-> "open", arg |-> arg, out |-> "not_found", id |-> 0,
                              branch |-> NULL]
              /\ UNCHANGED issues
         ELSE IF issues[id].status # "ready"
         THEN /\ lastCmd' = [cmd |-> "open", arg |-> arg, out |-> "not_ready", id |-> id,
                              branch |-> NULL]
              /\ UNCHANGED issues
         ELSE IF repoOf(id) \notin cloned
         THEN /\ lastCmd' = [cmd |-> "open", arg |-> arg, out |-> "not_cloned", id |-> id,
                              branch |-> NULL]
              /\ UNCHANGED issues
         ELSE /\ lastCmd' = [cmd |-> "open", arg |-> arg, out |-> "opened", id |-> id,
                              branch |-> NULL]
              /\ issues' = updateIssueStatus(issues, id, "in_progress")
  /\ UNCHANGED <<published, cloned, currentBranch, isRunning, scanInterval, cycles, scans,
                 builds, lastLog, notifiedReady>>

\* the git commands of push, in the order in which push awaits them
PushSteps == <<"hasUncommittedChanges", "commitChanges", "getStatus", "pushBranch">>

\* a variant of push that sets the status before the git commands
PushStatusFirst(arg, failed) ==
  /\ LET id == pushLookup(issues, arg)
     IN  IF id = 0
         THEN /\ failed = 0
              /\ lastCmd' = [cmd |-> "push", arg |-> arg, out |-> "not_found", id |-> 0,
                              branch |-> NULL]
              /\ UNCHANGED issues
         ELSE IF failed # 0 \/ repoOf(id) \notin cloned
         THEN /\ lastCmd' = [cmd |-> "push", arg |-> arg, out |-> "error", id |-> id,
                              branch |-> NULL]
              /\ issues' = updateIssueStatus(issues, id, "pushed")
         ELSE /\ lastCmd' = [cmd |-> "push", arg |-> arg, out |-> "pushed", id |-> id,
                              branch |-> currentBranch[repoOf(id)]]
              /\ issues' = updateIssueStatus(issues, id, "pushed")
  /\ UNCHANGED <<published, cloned, currentBranch, isRunning, scanInterval, cycles, scans,
                 builds, lastLog, notifiedReady>>

\* github-agent push <issue>; failed: the place in PushSteps of the git
\* command that throws, 0 when none does.  pushBranch pushes the branch the
\* clone is on (getCurrentBranch), and only then the status is set.
Push(arg, failed) ==
  /\ LET id == pushLookup(issues, arg)
     IN  IF id = 0
         THEN /\ failed = 0
              /\ lastCmd' = [cmd |-> "push", arg |-> arg, out |-> "not_found", id |-> 0,
                              branch |-> NULL]
              /\ UNCHANGED issues
         ELSE IF failed # 0 \/ repoOf(id) \notin cloned
         THEN /\ lastCmd' = [cmd |-> "push", arg |-> arg, out |-> "error", id |-> id,
                              branch |-> NULL]
              /\ UNCHANGED issues
         ELSE /\ lastCmd' = [cmd |-> "push", arg |-> arg, out |-> "pushed", id |-> id,
                              branch |-> currentBranch[repoOf(id)]]
              /\ issues' = updateIssueStatus(issues, id, "pushed")
  /\ UNCHANGED <<published, cloned, currentBranch, isRunning, scanInterval, cycles, scans,
                 builds, lastLog, notifiedReady>>

Next ==
  \/ StartDaemon /\ UNCHANGED <<scorerVars, startVars, auxVars>>
  \/ Tick /\ UNCHANGED <<scorerVars, startVars, auxVars>>
  \/ \E g \in DOMAIN Forge : Publish(g) /\ UNCHANGED <<scorerVars, startVars, auxVars>>
  \/ \E c \in DOMAIN cycles : Scan(c) /\ UNCHANGED <<scorerVars, startVars, auxVars>>
  \/ \E c \in DOMAIN cycles, ok \in BOOLEAN :
       EnsureRepoCloned(c, ok) /\ UNCHANGED <<scorerVars, startVars, auxVars>>
  \/ \E c \in DOMAIN cycles, ok \in BOOLEAN :
       CreateIssueBranch(c, ok) /\ UNCHANGED <<scorerVars, startVars, auxVars>>
  \/ \E c \in DOMAIN cycles, ok \in BOOLEAN :
       BuildContext(c, ok) /\ UNCHANGED <<scorerVars, startVars, auxVars>>
  \/ \E arg \in IssueArgs : Open(arg) /\ UNCHANGED <<scorerVars, startVars, auxVars>>
  \/ \E arg \in IssueArgs, failed \in 0..Len(PushSteps) :
       Push(arg, failed) /\ UNCHANGED <<scorerVars, startVars, auxVars>>

\* the state of a new installation: empty store, no daemon, no PID file
Init == ScorerIdle /\ StoreInit /\ StartInit /\ AuxIdle

Spec == Init /\ [][Next]_vars

\* ------------------------------------------------------------------------
\* Specification SpecStart: github-agent start / stop and the PID file
\* ------------------------------------------------------------------------

\* readPid(): null when there is no PID file
readPid == pidFile

\* isProcessRunning(pid): process.kill(pid, 0) does not throw
isProcessRunning(pid) == pid \in DOMAIN daemons /\ daemons[pid] # "none"

\* github-agent start [-f].  A foreground start runs startDaemon in the
\* command's own process, whose isRunning is still false, and writes no
\* PID file; a background start spawns daemon.js and saves the child's pid.
Start(foreground) ==
  /\ nextPid <= MaxPid
  /\ IF readPid # 0 /\ isProcessRunning(readPid)
     THEN /\ startOut' = "already_running"
          /\ UNCHANGED <<pidFile, daemons, nextPid>>
     ELSE IF foreground
     THEN /\ daemons' = [daemons EXCEPT ![nextPid] = "foreground"]
          /\ nextPid' = nextPid + 1
          /\ startOut' = "started_foreground"
          /\ UNCHANGED pidFile
     ELSE /\ daemons' = [daemons EXCEPT ![nextPid] = "background"]
          /\ pidFile' = nextPid
          /\ nextPid' = nextPid + 1
          /\ startOut' = "started_background"

\* github-agent stop: SIGTERM to the process of the PID file (stopDaemon
\* exits it) and removePid; a stale PID file is removed
Stop ==
  /\ readPid # 0
  /\ daemons' = IF isProcessRunning(readPid)
                THEN [daemons EXCEPT ![readPid] = "none"]
                ELSE daemons
  /\ pidFile' = 0
  /\ UNCHANGED <<nextPid, startOut>>

\* a daemon process ends on its own (SIGINT in its terminal, a crash);
\* nothing removes the PID file
DaemonExit(p) ==
  /\ isProcessRunning(p)
  /\ daemons' = [daemons EXCEPT ![p] = "none"]
  /\ UNCHANGED <<pidFile, nextPid, startOut>>

StartNext ==
  \/ \E fg \in BOOLEAN : Start(fg) /\ UNCHANGED <<scorerVars, storeVars, auxVars>>
  \/ Stop /\ UNCHANGED <<scorerVars, storeVars, auxVars>>
  \/ \E p \in DOMAIN daemons : DaemonExit(p) /\ UNCHANGED <<scorerVars, storeVars, auxVars>>

SpecStart == Init /\ [][StartNext]_vars

\* ------------------------------------------------------------------------
\* Specification SpecNotify: the configuration and the notifier
\* ------------------------------------------------------------------------

NotifyInit ==
  /\ cfgFile \in [loads : BOOLEAN, enabled : FileFlags, on_new_issue : FileFlags,
                   on_scan_complete : FileFlags, on_error : FileFlags]
  /\ configInstance = NoConfig
  /\ proc = "off"
  /\ sent = {}
  /\ lastNotify = NoNotify

\* startDaemon / runOnce: const config = getConfig() before anything else;
\* a throw ends the process
LoadConfig ==
  /\ proc = "off"
  /\ LET g == getConfig(configInstance, cfgFile)
     IN  /\ configInstance' = g.config
         /\ proc' = IF g.threw THEN "exited" ELSE "running"
  /\ UNCHANGED <<cfgFile, sent, lastNotify>>

\* notify({type, ...}), called from runScanCycle and processNewIssues; ok:
\* notifier.notify does not throw
Notify(type, ok) ==
  /\ proc = "running"
  /\ IF ~shouldNotify(configInstance, cfgFile, type)
     THEN /\ ok
          /\ lastNotify' = [type |-> type, out |-> "skipped"]
          /\ UNCHANGED sent
     ELSE IF ok
     THEN /\ lastNotify' = [type |-> type, out |-> "sent"]
          /\ sent' = sent \cup {type}
     ELSE /\ lastNotify' = [type |-> type, out |-> "failed"]
          /\ UNCHANGED sent
  /\ UNCHANGED <<cfgFile, configInstance, proc>>

NotifyNext ==
  \/ LoadConfig /\ UNCHANGED <<scorerVars, storeVars, startVars, briefVars, upsertVars, targetVars>>
  \/ \E type \in NotificationTypes : \E ok \in BOOLEAN :
       Notify(type, ok) /\ UNCHANGED <<scorerVars, storeVars, startVars, briefVars, upsertVars, targetVars>>

InitNotify ==
  ScorerIdle /\ StoreInit /\ StartInit /\ NotifyInit /\ BriefIdle /\ UpsertInit /\ TargetsIdle

SpecNotify == InitNotify /\ [][NotifyNext]_vars

\* ------------------------------------------------------------------------
\* Specification SpecBrief: buildContext from the file reads on
\* ------------------------------------------------------------------------

\* the lists of at most MaxBriefFiles different files
PathLists ==
  {p \in UNION {[1..n -> DOMAIN BriefFiles] : n \in 0..MaxBriefFiles} :
     \A i, j \in DOMAIN p : i # j => p[i] # p[j]}

BriefInit ==
  /\ relevantPaths \in PathLists
  /\ diskFiles \in [DOMAIN BriefFiles -> DiskStates]
  /\ taskFile = NoBrief
  /\ briefStatus = "new"
  /\ briefOut = "none"

\* buildContext from `Read file contents` on: the reads, generateTaskFile,
\* writeFileSync (writeOk: it does not throw), updateIssueTaskFile and
\* updateIssueStatus(issue.id, 'ready')
BuildBrief(writeOk) ==
  /\ briefOut = "none"
  /\ LET relevantFiles == readRelevantFiles(diskFiles, relevantPaths)
     IN  IF \E i \in DOMAIN relevantFiles : relevantFiles[i].content.threw
         THEN /\ briefOut' = "read_error"
              /\ UNCHANGED <<taskFile, briefStatus>>
         ELSE IF ~writeOk
         THEN /\ briefOut' = "write_error"
              /\ UNCHANGED <<taskFile, briefStatus>>
         ELSE /\ taskFile' = generateTaskFile(relevantFiles)
              /\ briefStatus' = "ready"
              /\ briefOut' = "returned"
  /\ UNCHANGED <<relevantPaths, diskFiles>>

BriefNext ==
  \E writeOk \in BOOLEAN :
       BuildBrief(writeOk) /\ UNCHANGED <<scorerVars, storeVars, startVars, notifyVars, upsertVars, targetVars>>

InitBrief ==
  ScorerIdle /\ StoreInit /\ StartInit /\ NotifyIdle /\ BriefInit /\ UpsertInit /\ TargetsIdle

SpecBrief == InitBrief /\ [][BriefNext]_vars

\* ------------------------------------------------------------------------
\* Specification SpecUpsert: upsertIssue on the issues table
\* ------------------------------------------------------------------------

\* What the scans hand to upsertIssue: issue #1 and issue #2 of o1/r1 and
\* issue #1 of o2/r1 (repo_name is the short name, r1 for both), each as
\* first seen and as edited on the forge since.
Sightings ==
  { [github_id |-> g[1], repo_name |-> <<"r1">>, issue_number |-> g[2],
     title |-> v[1], body |-> v[2], state |-> v[3],
     html_url |-> g[3], created_at |-> 1, updated_at |-> v[4]] :
      g \in { <<101, 1, "o1/r1/issues/1">>, <<102, 2, "o1/r1/issues/2">>,
              <<103, 1, "o2/r1/issues/1">> },
      v \in { <<"t1", "b1", "open", 1>>, <<"t2", "b2", "closed", 2>> } }

\* upsertIssue(issue), from the loop of scanAllRepos
Upsert(data) ==
  /\ LET u == upsertIssue(table, data, 1 + Len(table))
     IN  /\ table' = u.rows
         /\ lastUpsert' = [data |-> data, isNew |-> u.isNew, id |-> u.id,
                           threw |-> u.threw]

\* what processNewIssues does to a new issue between two scans:
\* updateIssueBranch, updateIssueTaskFile and updateIssueStatus(id, 'ready'),
\* or updateIssueStatus(id, 'skipped')
Processed(id, ok) ==
  /\ table[id].status = "new"
  /\ table' = IF ok
              THEN updateIssueStatus(
                     updateIssueTaskFile(
                       updateIssueBranch(table, id, branchNameOf(table[id])),
                       id, taskFilePathOf(table[id])),
                     id, "ready")
              ELSE updateIssueStatus(table, id, "skipped")
  /\ UNCHANGED lastUpsert

UpsertNext ==
  \/ \E data \in Sightings :
       Upsert(data) /\ UNCHANGED <<scorerVars, storeVars, startVars, notifyVars, briefVars, targetVars>>
  \/ \E id \in DOMAIN table : \E ok \in BOOLEAN :
       Processed(id, ok) /\ UNCHANGED <<scorerVars, storeVars, startVars, notifyVars, briefVars, targetVars>>

SpecUpsert == Init /\ [][UpsertNext]_vars

\* ------------------------------------------------------------------------
\* Specification SpecTargets: scans of the configured targets and the
\* getIssueDetails call of buildContext
\* ------------------------------------------------------------------------

TargetsInit ==
  /\ targets \in TargetsValues
  /\ down \in {{}, {"o2"}}
  /\ scanRows = <<>>
  /\ scanHistory = <<>>
  /\ lastScan = NoScan
  /\ details = NoDetails

\* scanAllRepos(): the upserts of every fetched issue, then recordScan; an
\* error of upsertIssue ends it before recordScan, with the rows upserted
\* so far in the table
ScanAllRepos ==
  /\ lastScan.calls < MaxTargetScans
  /\ LET r == scanAllTargets(scanRows, targets, down, 1 + Len(scanRows))
     IN  /\ scanRows' = r.rows
         /\ scanHistory' = IF r.threw THEN scanHistory
                           ELSE Append(scanHistory,
                                       [repos_scanned |-> r.reposScanned,
                                        issues_found  |-> r.issuesFound,
                                        new_issues    |-> r.newIssues])
         /\ lastScan' = [calls        |-> lastScan.calls + 1,
                         threw        |-> r.threw,
                         reposScanned |-> r.reposScanned,
                         issuesFound  |-> r.issuesFound,
                         newIssues    |-> r.newIssues]
  /\ UNCHANGED <<targets, down, details>>

\* buildContext(issue, ...) up to getIssueDetails(issue.repo_name,
\* issue.issue_number), for the stored issue id
FetchDetails(id) ==
  /\ LET d == getIssueDetails(targets.organizations, down,
                              scanRows[id].repo_name, scanRows[id].issue_number)
     IN  details' = [id |-> id, owner |-> d.owner, repo |-> d.repo, found |-> d.found]
  /\ UNCHANGED <<targets, down, scanRows, scanHistory, lastScan>>

TargetsNext ==
  \/ ScanAllRepos
       /\ UNCHANGED <<scorerVars, storeVars, startVars, notifyVars, briefVars, upsertVars>>
  \/ \E id \in DOMAIN scanRows :
       FetchDetails(id)
         /\ UNCHANGED <<scorerVars, storeVars, startVars, notifyVars, briefVars, upsertVars>>

InitTargets ==
  ScorerIdle /\ StoreInit /\ StartInit /\ NotifyIdle /\ BriefIdle /\ UpsertInit /\ TargetsInit

SpecTargets == InitTargets /\ [][TargetsNext]_vars

\* ------------------------------------------------------------------------
\* Claims about the relevance scorer
\* ------------------------------------------------------------------------

\* C1: findRelevantFiles returns at most N entries, and every returned file
\* was scored by the walk with a score strictly greater than 0.
C1_AtMostNPositive ==
  scPc # "input" =>
    /\ Len(ranked) <= maxFiles
    /\ \A i \in DOMAIN ranked :
         \E j \in DOMAIN scoreLog :
           scoreLog[j].path = ranked[i].path /\ scoreLog[j].score > 0

\* C1 witness: a call that had more positive files than N and truncated,
\* on a tree where the walk also scored a file with score 0.
C1_Witness ==
  /\ scPc # "input"
  /\ Len(results) > maxFiles
  /\ Len(ranked) = maxFiles
  /\ maxFiles > 0
  /\ \E j \in DOMAIN scoreLog : scoreLog[j].score = 0

\* every file scored at least as high in this call as in the call before
ScoresNotLower ==
  \A j \in DOMAIN scoreLog :
    \A k \in DOMAIN prevScoreLog :
      scoreLog[j].path = prevScoreLog[k].path =>
        scoreLog[j].score >= prevScoreLog[k].score

\* C2 as stated: whenever every keyword of the earlier call is a keyword of
\* this call (lists of any size, in any order), no file scores lower.
C2_Original ==
  (scPc = "again" /\ Range(prevKeywords) \subseteq Range(keywords))
    => ScoresNotLower

\* C2 amended: whenever every one of the first 20 keywords of the earlier
\* call is among the first 20 keywords of this call, no file scores lower.
C2_MonotoneWithinLimit ==
  (scPc = "again" /\ Range(slice0(prevKeywords, KeywordLimit))
                       \subseteq Range(slice0(keywords, KeywordLimit)))
    => ScoresNotLower

\* C2 witness: a longer list than the limit whose first 20 keywords hold
\* those of the earlier call, and a file whose score went up.
C2_Witness ==
  /\ scPc = "again"
  /\ Len(keywords) > KeywordLimit
  /\ Range(slice0(prevKeywords, KeywordLimit)) \subseteq Range(slice0(keywords, KeywordLimit))
  /\ \E j \in DOMAIN scoreLog : \E k \in DOMAIN prevScoreLog :
       /\ scoreLog[j].path = prevScoreLog[k].path
       /\ scoreLog[j].score > prevScoreLog[k].score


\* ------------------------------------------------------------------------
\* Claims about the issue lifecycle, the daemon and the commands
\* ------------------------------------------------------------------------

AllowedMoves ==
  { <<"new", "ready">>, <<"ready", "in_progress">>, <<"in_progress", "fixed">>,
    <<"fixed", "pushed">>, <<"new", "skipped">> }

\* C3 as stated: every change of an issue's stored status is one of
\* new -> ready, ready -> in_progress, in_progress -> fixed,
\* fixed -> pushed, new -> skipped.
C3_Original ==
  [][\A id \in DOMAIN issues :
       issues'[id].status # issues[id].status =>
         <<issues[id].status, issues'[id].status>> \in AllowedMoves]_vars

\* C4 as stated: once an issue's status is skipped, no step changes it.
C4_Original ==
  [][\A id \in DOMAIN issues :
       issues[id].status = "skipped" => issues'[id].status = "skipped"]_vars

\* the step ends the processing of the issue cycle c was at, with the
\* error logged
FailedStep(c) ==
  /\ Processing(c)
  /\ cycles'[c] # cycles[c]
  /\ ~(cycles'[c].idx = cycles[c].idx /\ cycles'[c].pc \in {"branch", "build"})
  /\ lastLog'[curIssue(c)] = "failed"

\* C5: when a step of processing an issue fails (clone, branch or build),
\* the issue's status is skipped afterwards and the cycle goes on with the
\* next issue of its snapshot, or ends if there is none.
C5_FailureSkipsAndContinues ==
  [][\A c \in DOMAIN cycles :
       FailedStep(c) =>
         /\ issues'[curIssue(c)].status = "skipped"
         /\ IF cycles[c].idx < Len(cycles[c].snapshot)
            THEN /\ cycles'[c].pc = "clone"
                 /\ cycles'[c].snapshot = cycles[c].snapshot
                 /\ cycles'[c].idx = cycles[c].idx + 1
            ELSE cycles'[c].pc = "idle"]_vars

\* C5 witness: a cycle is building the second issue of its snapshot after
\* the first one failed in buildContext and was marked skipped.
C5_Witness ==
  \E c \in DOMAIN cycles :
    /\ cycles[c].pc = "build"
    /\ cycles[c].idx = 2
    /\ issues[cycles[c].snapshot[1]].status = "skipped"
    /\ lastLog[cycles[c].snapshot[1]] = "failed"
    /\ builds[cycles[c].snapshot[1]] = 1

\* C6 as stated: at most one issue is being processed at any moment,
\* whatever the timing of the poll timer.
C6_Original ==
  Cardinality({c \in DOMAIN cycles : Processing(c)}) <= 1

\* C7 as stated: buildContext runs at most once for an issue, over any
\* sequence of scan cycles.
C7_Original ==
  \A id \in DOMAIN issues : builds[id] <= 1

\* C8 as stated: push with the bare number of an in_progress issue finds
\* that issue.
C8_Original ==
  \A id \in DOMAIN issues :
    ( /\ lastCmd.cmd = "push"
      /\ lastCmd.arg = toString(issues[id].issue_number)
      /\ issues[id].status = "in_progress" )
      => lastCmd.id = id

\* C9 as stated: open with any of the three documented reference forms of
\* a stored issue finds the issue.
C9_Original ==
  [][\A g \in CmdIssues : \A id \in DOMAIN issues :
       ( /\ issues[id].github_id = Forge[g].github_id
         /\ lastCmd' # lastCmd
         /\ lastCmd'.cmd = "open"
         /\ lastCmd'.arg \in {argNumber(g), argRepo(g), argOwnerRepo(g)} )
         => lastCmd'.out # "not_found"]_vars

\* C10 as stated: at most one daemon process runs at a time.
C10_Original ==
  Cardinality({p \in DOMAIN daemons : daemons[p] # "none"}) <= 1

\* ------------------------------------------------------------------------
\* Claims about the notifier
\* ------------------------------------------------------------------------

\* the configuration flag that the README documents for a notification type
flagFor(config, type) ==
  IF type \in {"new_issue", "issue_ready"} THEN config.onNewIssue
  ELSE IF type = "scan_complete" THEN config.onScanComplete
  ELSE config.onError

\* C11: every notification delivered is of a type whose flag is true in
\* the loaded configuration, with notifications.enabled true; and when the
\* configuration file says enabled: false nothing is ever delivered.
C11_DeliveredOnlyIfEnabled ==
  /\ \A t \in sent :
       /\ configInstance # NoConfig
       /\ configInstance.enabled
       /\ flagFor(configInstance, t)
  /\ cfgFile.enabled = "false" => sent = {}
  /\ \A t \in NotificationTypes :
       (lastNotify.type = t /\ lastNotify.out # "skipped") =>
         (configInstance.enabled /\ flagFor(configInstance, t))

\* C11 witness: with notifications enabled and on_error false, an
\* issue_ready notification was delivered and an error notification was
\* just held back.
C11_Witness ==
  /\ cfgFile.enabled = "true"
  /\ cfgFile.on_error = "false"
  /\ "issue_ready" \in sent
  /\ lastNotify = [type |-> "error", out |-> "skipped"]

\* ------------------------------------------------------------------------
\* Claims about the task brief
\* ------------------------------------------------------------------------

\* C12: buildContext never ends with the error of a file read, and unless
\* the write of the task file fails it returns whichever files could not
\* be read: the brief is written with one block
\* per relevant file, the block of a file that could not be read holds the
\* error marker, the block of every other file holds that file's lines (the
\* first 500 of them), and the issue's status is ready.
C12_ReadFailureKeepsBrief ==
  briefOut # "none" =>
    \/ briefOut = "write_error" /\ taskFile = NoBrief /\ briefStatus = "new"
    \/ /\ briefOut = "returned"
       /\ briefStatus = "ready"
       /\ taskFile # NoBrief
       /\ Len(taskFile.blocks) = Len(relevantPaths)
       /\ \A i \in DOMAIN relevantPaths :
            LET f == relevantPaths[i]
                b == taskFile.blocks[i]
            IN  /\ b.heading = BriefFiles[f].path
                /\ IF diskFiles[f] = "missing"
                   THEN b.fenced.marker = "error"
                   ELSE /\ b.fenced.marker # "error"
                        /\ b.fenced.lines =
                             SubSeq(linesOnDisk[diskFiles[f]], 1, Len(b.fenced.lines))
                        /\ Len(b.fenced.lines) + b.fenced.more
                             = Len(linesOnDisk[diskFiles[f]])
                        /\ Len(b.fenced.lines) <= MaxLines

\* C12 witness: a brief of two files was written and the issue is ready,
\* the first file having been deleted and the second being readable.
C12_Witness ==
  /\ briefOut = "returned"
  /\ briefStatus = "ready"
  /\ Len(relevantPaths) = 2
  /\ diskFiles[relevantPaths[1]] = "missing"
  /\ diskFiles[relevantPaths[2]] = "long"
  /\ taskFile.blocks[1].fenced.marker = "error"
  /\ taskFile.blocks[2].fenced.marker = "truncated"

\* ------------------------------------------------------------------------
\* Claims about the directory walk
\* ------------------------------------------------------------------------

\* the directories on the way to a file, from the text of its relative path
dirComponents(rel) ==
  LET comps == split(rel, "/") IN SubSeq(comps, 1, Len(comps) - 1)

\* C13: no path that findRelevantFiles scored or returned has a directory
\* named node_modules, target or dist, or a dot-prefixed directory, among
\* its components.
C13_SkippedDirsNeverVisited ==
  \A p \in {scoreLog[j].path : j \in DOMAIN scoreLog}
           \cup {ranked[i].path : i \in DOMAIN ranked} :
    \A c \in Range(dirComponents(p)) :
      /\ c \notin {nNodeModules, nTarget, nDist}
      /\ c[1] # "."

\* C13 witness: a call on a tree that holds files below .git, below a
\* nested dist, below target and below node_modules has returned every
\* file it pushed, and that list is not empty.
C13_Witness ==
  /\ scPc # "input"
  /\ \A d \in {<<nDotGit>>, <<nSrc, nDist>>, <<nTarget>>, <<nNodeModules>>} :
       d \in Dirs(tree)
  /\ unreadable = {}
  /\ Len(ranked) = Len(results)
  /\ Len(ranked) > 0

\* ------------------------------------------------------------------------
\* Claims about the score, the order and the reason
\* ------------------------------------------------------------------------

\* the name of a file, from the text of its relative path
baseName(rel) == LET comps == split(rel, "/") IN comps[Len(comps)]

\* 1 for a true statement, 0 for a false one
Iverson(b) == IF b THEN 1 ELSE 0

\* the first 20 keywords of this call
checkedKeywords ==
  {keywords[i] : i \in {j \in DOMAIN keywords : j <= 20}}

\* the score the rules give the file with this relative path in this call
statedScore(rel) ==
  LET name == baseName(rel)
  IN  10 * Iverson(\E r \in Range(fileRefs) : includes(rel, r) \/ includes(name, r))
      + 3 * Iverson(\E k \in checkedKeywords :
                      includes(toLowerCase(name), toLowerCase(k)))
      + 2 * Iverson(name = <<"R","E","A","D","M","E",".","m","d">>)
      + Iverson(\/ includes(name, <<"i","n","d","e","x">>)
                \/ includes(name, <<"m","a","i","n">>)
                \/ includes(name, <<"l","i","b">>))

pathsOf(list) == [i \in DOMAIN list |-> list[i].path]

\* C14: every file the walk scored has an allow-listed extension and its
\* score is 10 for a reference match + 3 for a keyword match + 2 for the
\* name README.md + 1 for an entry-point name, each at most once.  With the
\* one reference auth.ts and no keyword, of src/auth.ts and src/other.ts
\* only src/auth.ts is returned, with score 10; with the one keyword login
\* loginHandler.ts scores 3; an unmatched README.md scores 2 and is returned.
C14_ScoreIsSumOfRules ==
  scPc # "input" =>
    /\ \A j \in DOMAIN scoreLog :
         /\ extname(baseName(scoreLog[j].path)) \in codeExtensions
         /\ scoreLog[j].score = statedScore(scoreLog[j].path)
    /\ ( /\ fileRefs = <<nAuthTs>> /\ keywords = <<>> /\ maxFiles >= 1
         /\ unreadable = {}
         /\ {Universe[i].path : i \in tree \cap UFiles} = {<<nSrc, nAuthTs>>, <<nSrc, nOtherTs>>} )
       => /\ pathsOf(ranked) = <<relativePath(<<nSrc, nAuthTs>>)>>
          /\ pathsOf(results) = pathsOf(ranked)
          /\ results[1].score = 10
    /\ ( /\ fileRefs = <<>> /\ keywords = <<kLogin>>
         /\ \E i \in tree : Universe[i].path = <<nLoginHandler>> )
       => \E j \in DOMAIN scoreLog :
            scoreLog[j].path = nLoginHandler /\ scoreLog[j].score = 3
    /\ ( /\ fileRefs = <<>> /\ keywords = <<>> /\ maxFiles = DefaultMaxFiles
         /\ \E i \in tree : Universe[i].path = <<nReadme>> )
       => /\ \E j \in DOMAIN scoreLog :
               scoreLog[j].path = nReadme /\ scoreLog[j].score = 2
          /\ \E i \in DOMAIN ranked : ranked[i].path = nReadme

\* C14 witness: a call on the full tree scored a file 13 (reference and
\* keyword), one 11 (reference and entry-point name), one 3 (keyword), one
\* 2 (README.md), and met a file with an extension off the list.
C14_Witness ==
  /\ scPc # "input"
  /\ \A v \in {13, 11, 3, 2} : \E j \in DOMAIN scoreLog : scoreLog[j].score = v
  /\ \E i \in tree : Universe[i].path = <<nSrc, nLogoPng>>
  /\ unreadable = {}

\* ------------------------------------------------------------------------
\* Claims about the issue store
\* ------------------------------------------------------------------------

\* the row of the table that holds this github_id, 0 when there is none
rowOf(rows, gid) ==
  IF \E i \in DOMAIN rows : rows[i].github_id = gid
  THEN CHOOSE i \in DOMAIN rows : rows[i].github_id = gid
  ELSE 0

\* C15 as stated: an upsert of a stored github_id sets title, body, state
\* and updated_at, leaves the other fields and the other rows alone, adds no
\* row and gives isNew = false; an upsert of a github_id not stored adds
\* exactly one row, of status new, and gives isNew = true; there is never
\* more than one row of a github_id.
C15_Original ==
  [][lastUpsert' # lastUpsert =>
       LET d == lastUpsert'.data
           i == rowOf(table, d.github_id)
       IN  /\ IF i # 0
              THEN /\ ~lastUpsert'.threw /\ ~lastUpsert'.isNew
                   /\ Len(table') = Len(table)
                   /\ table'[i] = [table[i] EXCEPT !.title = d.title, !.body = d.body,
                                                   !.state = d.state,
                                                   !.updated_at = d.updated_at]
                   /\ \A k \in DOMAIN table : k # i => table'[k] = table[k]
              ELSE /\ ~lastUpsert'.threw /\ lastUpsert'.isNew
                   /\ Len(table') = Len(table) + 1
                   /\ table'[Len(table')].github_id = d.github_id
                   /\ table'[Len(table')].status = "new"
                   /\ \A k \in DOMAIN table : table'[k] = table[k]
           /\ \A k, l \in DOMAIN table' :
                table'[k].github_id = table'[l].github_id => k = l]_vars

\* ------------------------------------------------------------------------
\* Claims about the 'issue ready' notification
\* ------------------------------------------------------------------------

\* C16 as stated: when the 'issue ready' notification of an issue is
\* emitted the issue's task file is recorded and its status is ready, the
\* issue was not marked skipped by a failed run before, and no issue that was
\* notified as ready is afterwards one whose processing failed and that is
\* marked skipped.
C16_Original ==
  [][/\ \A id \in notifiedReady' \ notifiedReady :
          /\ issues'[id].status = "ready"
          /\ issues'[id].task_file_path # NULL
          /\ issues[id].status # "skipped"
     /\ \A id \in notifiedReady' :
          ~(issues'[id].status = "skipped" /\ lastLog'[id] = "failed")]_vars

\* ------------------------------------------------------------------------
\* Claims about the order and the reasons of the returned list
\* ------------------------------------------------------------------------

\* the place of the file with this path in results, the order of discovery
discovered(p) == CHOOSE k \in DOMAIN results : results[k].path = p

\* a file of results ranks before another: a higher score, or the same
\* score and an earlier discovery
ranksBefore(k, l) ==
  \/ results[k].score > results[l].score
  \/ results[k].score = results[l].score /\ k < l

\* C17: the returned list holds files of results only, in non-increasing
\* score order with equal scores in the order of discovery; it holds
\* min(maxFiles, number of results) files, and every file left out ranks
\* after every file returned, so none left out has a higher score.
C17_RankedIsSortedPrefix ==
  scPc # "input" =>
    /\ \A i \in DOMAIN ranked :
         \E k \in DOMAIN results : results[k].path = ranked[i].path
    /\ Len(ranked) = IF maxFiles < Len(results) THEN maxFiles ELSE Len(results)
    /\ \A i, j \in DOMAIN ranked :
         i < j => ranksBefore(discovered(ranked[i].path), discovered(ranked[j].path))
    /\ \A k \in DOMAIN results :
         (\A i \in DOMAIN ranked : ranked[i].path # results[k].path)
           => \A i \in DOMAIN ranked :
                /\ ranksBefore(discovered(ranked[i].path), k)
                /\ results[discovered(ranked[i].path)].score >= results[k].score

\* C17 witness: a call returned two files of which the first was discovered
\* after the second, and left out a file with the score of the second that
\* was discovered after it.
C17_Witness ==
  /\ scPc # "input"
  /\ Len(ranked) = 2 /\ Len(results) > 2
  /\ discovered(ranked[1].path) > discovered(ranked[2].path)
  /\ \E k \in DOMAIN results :
       /\ k > discovered(ranked[2].path)
       /\ results[k].path # ranked[1].path
       /\ results[k].score = results[discovered(ranked[2].path)].score

\* the places, among the first 20 keywords of this call, of the keywords
\* that the lower-cased file name contains
matchingKeywords(rel) ==
  {i \in DOMAIN keywords :
     /\ i <= 20
     /\ includes(toLowerCase(baseName(rel)), toLowerCase(keywords[i]))}

\* the reason of the first rule, in the order reference, keyword, README,
\* entry-point name, that applies to the file with this relative path
statedReason(rel) ==
  LET name == baseName(rel)
      hits == matchingKeywords(rel)
  IN  IF \E r \in Range(fileRefs) : includes(rel, r) \/ includes(name, r)
        THEN [rule |-> "Referenced in issue", kw |-> <<>>]
      ELSE IF hits # {}
        THEN [rule |-> "Matches keyword",
              kw   |-> keywords[CHOOSE i \in hits : \A j \in hits : i <= j]]
      ELSE IF name = <<"R","E","A","D","M","E",".","m","d">>
        THEN [rule |-> "README file", kw |-> <<>>]
      ELSE [rule |-> "Entry point file", kw |-> <<>>]

\* C18: the reason of every returned file is the reason of the first rule
\* that applied to it, in the order reference, keyword, README, entry-point
\* name: a file matching a reference and a keyword is reported as referenced
\* in the issue, and a keyword reason names the first matching keyword among
\* the first 20 of the list, as the list spells it.
C18_ReasonIsFirstRule ==
  scPc # "input" =>
    /\ \A i \in DOMAIN ranked : ranked[i].reason = statedReason(ranked[i].path)
    /\ \A k \in DOMAIN results : results[k].reason = statedReason(results[k].path)

\* C18 witness: a call returned a file that matches a reference and a
\* keyword, and a file that matches two keywords of which the first is not
\* the first of the list.
C18_Witness ==
  /\ scPc # "input"
  /\ \E i \in DOMAIN ranked :
       /\ ranked[i].reason.rule = "Referenced in issue"
       /\ matchingKeywords(ranked[i].path) # {}
  /\ \E i \in DOMAIN ranked :
       /\ ranked[i].reason.rule = "Matches keyword"
       /\ Cardinality(matchingKeywords(ranked[i].path)) >= 2
       /\ 1 \notin matchingKeywords(ranked[i].path)

\* ------------------------------------------------------------------------
\* Claims about the depth of the walk and unreadable directories
\* ------------------------------------------------------------------------

\* the depth of the directory that holds the file with this relative path,
\* the repository root being at depth 0
depthOfDir(rel) == Len(split(rel, "/")) - 1

\* C19: no file in a directory nested more than 5 levels below the root is
\* scored or returned, every file of a readable, unskipped directory of
\* depth at most 5 with a listed extension is scored, and the walk ends
\* with a value on every tree.
C19_DepthAtMostFive ==
  scPc # "input" =>
    /\ \A j \in DOMAIN scoreLog : depthOfDir(scoreLog[j].path) <= 5
    /\ \A i \in DOMAIN ranked : depthOfDir(ranked[i].path) <= 5
    /\ \A i \in tree \cap UFiles :
         LET p == Universe[i].path
         IN  ( /\ Len(p) - 1 <= 5
               /\ \A k \in 1..Len(p) : ~skipEntry(p[k])
               /\ \A d \in unreadable : ~IsPrefix(d, p)
               /\ extname(p[Len(p)]) \in codeExtensions )
             => \E j \in DOMAIN scoreLog : scoreLog[j].path = relativePath(p)

\* C19 witness: a call on a tree with a file in a directory of depth 5 and
\* a file in a directory of depth 6 scored and returned the first and not
\* the second.
C19_Witness ==
  /\ scPc # "input"
  /\ \E i \in tree : Universe[i].path = DeepDir(6) \o <<nIndexTs>>
  /\ \E i \in DOMAIN ranked :
       ranked[i].path = relativePath(DeepDir(5) \o <<nMainTs>>)
  /\ \A j \in DOMAIN scoreLog :
       scoreLog[j].path # relativePath(DeepDir(6) \o <<nIndexTs>>)

\* the tree without everything below its unreadable directories
readablePart ==
  {i \in tree : \A d \in unreadable :
                  ~(IsPrefix(d, Universe[i].path) /\ Universe[i].path # d)}

\* C20: a directory whose read fails contributes nothing and stops nothing:
\* the call returns, no file below an unreadable directory is scored, and
\* the files scored, pushed and returned are those of the same tree with
\* the unreadable directories empty, in the same order.
C20_UnreadableDirectoryOnly ==
  scPc # "input" =>
    LET rest == findRelevantFiles(readablePart, {}, fileRefs, keywords, maxFiles)
    IN  /\ \A j \in DOMAIN scoreLog : \A d \in unreadable :
             ~IsPrefix(relativePath(d) \o <<"/">>, scoreLog[j].path)
        /\ \A i \in readablePart \cap UFiles :
             LET p == Universe[i].path
             IN  ( /\ Len(p) - 1 <= 5
                   /\ \A k \in 1..Len(p) : ~skipEntry(p[k])
                   /\ extname(p[Len(p)]) \in codeExtensions
                   /\ statedScore(relativePath(p)) > 0 )
                 => \E k \in DOMAIN results : results[k].path = relativePath(p)
        /\ scoreLog = rest.log
        /\ results = rest.results
        /\ ranked = rest.ranked

\* C20 witness: a call on a tree whose directory src holds a file that
\* would score and cannot be read returned files that the walk met after
\* src, and nothing of src.
C20_Witness ==
  /\ scPc # "input"
  /\ unreadable = {<<nSrc>>}
  /\ \E i \in tree : Universe[i].path = <<nSrc, nIndexTs>>
  /\ \E i \in DOMAIN ranked : ranked[i].path = nReadme
  /\ \E i \in DOMAIN ranked : ranked[i].path = relativePath(DeepDir(5) \o <<nMainTs>>)
  /\ \A j \in DOMAIN scoreLog : ~IsPrefix(rSrcDir, scoreLog[j].path)

\* ------------------------------------------------------------------------
\* Claims about the cap on the content of a file
\* ------------------------------------------------------------------------

\* the places of the newlines of a text
newlines(text) == {i \in DOMAIN text : text[i] = "\n"}

\* the number of lines of a text: every newline ends a line, and what
\* follows the last newline, if anything, is one more line
lineCount(text) ==
  Cardinality(newlines(text))
    + (IF text # <<>> /\ text[Len(text)] # "\n" THEN 1 ELSE 0)

\* C21 as stated: in a brief that was written, the block of a readable
\* file of at most 500 lines holds the content of the file unchanged and no
\* marker; the block of a file of more than 500 lines holds its first 500
\* lines and a truncation marker that states total lines - 500 more lines.
\* A file of exactly 500 lines is not truncated, whether or not its last
\* line ends with a newline.
C21_Original ==
  briefOut = "returned" =>
    \A i \in DOMAIN relevantPaths :
      LET f       == relevantPaths[i]
          content == contentOnDisk[diskFiles[f]]
          got     == taskFile.blocks[i].fenced
      IN  diskFiles[f] # "missing" =>
            IF lineCount(content) <= 500
            THEN got.marker = "none" /\ got.text = content
            ELSE /\ got.marker = "truncated"
                 /\ got.more = lineCount(content) - 500
                 /\ got.text = SubSeq(content, 1, Len(got.text))
                 /\ lineCount(got.text) = 500
                 /\ content[Len(got.text) + 1] = "\n"

\* ------------------------------------------------------------------------
\* Claims about the rows of the store and the push command
\* ------------------------------------------------------------------------

\* C22: every issue whose status is ready or in_progress has a branch name
\* and a task file path recorded.
C22_ReadyHasBranchAndBrief ==
  \A id \in DOMAIN issues :
    issues[id].status \in {"ready", "in_progress"} =>
      /\ issues[id].branch_name # NULL
      /\ issues[id].task_file_path # NULL

\* C22 witness: one issue is ready, another is in progress, both with
\* their branch and their task file.
C22_Witness ==
  \E id, jd \in DOMAIN issues :
    /\ issues[id].status = "in_progress"
    /\ issues[jd].status = "ready"
    /\ issues[id].branch_name = branchNameOf(issues[id])
    /\ issues[jd].task_file_path = taskFilePathOf(issues[jd])

\* C23 as stated: whenever push sets the status of an issue to pushed, the
\* branch that was pushed to origin is the branch recorded for that issue.
C23_Original ==
  [][( /\ lastCmd' # lastCmd
       /\ lastCmd'.cmd = "push"
       /\ lastCmd'.out = "pushed" )
       => lastCmd'.branch = issues'[lastCmd'.id].branch_name]_vars

\* C25: the status of an issue becomes pushed only in a push of that issue
\* in which git push returned, and a push that ends with an error leaves
\* every row of the store as it was.
C25_PushedOnlyAfterPush ==
  [][/\ \A id \in DOMAIN issues :
          (issues'[id].status = "pushed" /\ issues[id].status # "pushed")
            => /\ lastCmd'.cmd = "push"
               /\ lastCmd'.out = "pushed"
               /\ lastCmd'.id = id
               /\ lastCmd'.branch # NULL
     /\ ( /\ lastCmd' # lastCmd
          /\ lastCmd'.cmd = "push"
          /\ lastCmd'.out = "error" )
          => issues' = issues]_vars

\* C25 witness: a push of an issue in progress, in a repository that is
\* cloned, ended with an error and the issue is still in progress.
C25_Witness ==
  /\ lastCmd.cmd = "push"
  /\ lastCmd.out = "error"
  /\ repoOf(lastCmd.id) \in cloned
  /\ issues[lastCmd.id].status = "in_progress"

\* ------------------------------------------------------------------------
\* Claims about the scan of the targets and the details of an issue
\* ------------------------------------------------------------------------

\* the repository of the forge that holds the issue with this github id
repoOfIssue(gid) ==
  CHOOSE h \in DOMAIN Hub : \E k \in DOMAIN Hub[h].items : Hub[h].items[k].id = gid

\* C24 as stated: the details and comments of a stored issue are requested
\* from the owner and the repository that issue was scanned from, whatever
\* target the repository came from.
C24_Original ==
  details.id # 0 =>
    LET h == repoOfIssue(scanRows[details.id].github_id)
    IN  /\ details.owner = <<Hub[h].owner>>
        /\ details.repo = <<Hub[h].name>>

\* the github ids of the issues a scan of the targets fetches
fetchedIds ==
  UNION { {it.id : it \in Range(fetchRepoIssues(h, down))} :
            h \in {g \in Range(fetchAllTargetRepos(targets, down)) : Hub[g].has_issues} }

\* C26 as stated: every call of scanAllRepos ends without an error, leaves
\* a row for every issue it fetched, records exactly one row of
\* scan_history, and reports as newIssues the number of rows it inserted.
C26_Original ==
  [][lastScan'.calls = lastScan.calls + 1 =>
       /\ ~lastScan'.threw
       /\ \A gid \in fetchedIds :
            \E i \in DOMAIN scanRows' : scanRows'[i].github_id = gid
       /\ Len(scanHistory') = Len(scanHistory) + 1
       /\ lastScan'.newIssues = Len(scanRows') - Len(scanRows)]_vars

====
